---- MODULE Spec2Model ----
(***************************************************************************)
(* Blob decoders of the Firefox extension storage recovery tools:          *)
(* decode_key / decode_data (extract_firefox_extension_data.py and         *)
(* BlobDecoder in firefox_extension_storage_recovery.py), the field        *)
(* scanners parse_make_it_pop_entry and parse_structured_data, and the     *)
(* row loops that call them.                                               *)
(*                                                                         *)
(* Bytes are integers 0..255, text is a sequence of Unicode code points.   *)
(* Python values that can sit in a row are tagged records:                 *)
(*   [t |-> "null"], [t |-> "bytes", b |-> <<..>>],                        *)
(*   [t |-> "int", n |-> 5], [t |-> "str", s |-> <<..>>].                  *)
(***************************************************************************)
EXTENDS Integers, Sequences, FiniteSets, TLC

VARIABLES
  pc,       \* position of the running call or loop
  tool,     \* the function or script that runs
  arg,      \* the value a single call is given
  stored,   \* what the test generator encoded into arg, if it made arg
  ret,      \* the value the call returned
  spans,    \* the field spans the call's scanner worked on
  rows,     \* the rows fetched from object_data
  idx,      \* number of rows the loop has taken
  entries,  \* entries of recover_data_from_database
  raw_entries, \* raw_entries of recover_data_from_database
  result,   \* result of extract_data and of extract_make_it_pop_data
  printed,  \* the per-row lines written to the console so far
  databases,     \* the database files a batch was given, in order
  db_idx,        \* number of files the batch has taken
  ext_data_list, \* the ExtensionData a batch has collected
  matches,       \* the paths find_firefox_extension has collected
  json_output    \* what format_output_json returned

vars ==
  <<pc, tool, arg, stored, ret, spans, rows, idx, entries, raw_entries, result, printed,
    databases, db_idx, ext_data_list, matches, json_output>>

\* What belongs to the batches over database files.
batchVars == <<databases, db_idx, ext_data_list, matches, json_output>>

\* What belongs to the row loops.
loopVars == <<rows, idx, entries, raw_entries, result, printed>>
\* What a single call leaves alone.
callFrame == <<tool, arg, stored, loopVars, batchVars>>

\* No batch runs.
NoBatch ==
  /\ databases = <<>>
  /\ db_idx = 0
  /\ ext_data_list = <<>>
  /\ matches = <<>>
  /\ json_output = <<>>

\* The row loops at rest.
NoLoop ==
  /\ rows = <<>>
  /\ idx = 0
  /\ entries = <<>>
  /\ raw_entries = <<>>
  /\ result = <<>>
  /\ printed = <<>>

(***************************************************************************)
(* Characters                                                              *)
(***************************************************************************)

\* The printable ASCII characters, code points 32..126 in order (the grave
\* accent, which a string literal cannot hold, by name).
Ascii ==
  <<
     " ", "!", "\"", "#", "$", "%", "&", "'", "(", ")", "*", "+", ",", "-", ".", "/",
     "0", "1", "2", "3", "4", "5", "6", "7", "8", "9", ":", ";", "<", "=", ">", "?",
     "@", "A", "B", "C", "D", "E", "F", "G", "H", "I", "J", "K", "L", "M", "N", "O",
     "P", "Q", "R", "S", "T", "U", "V", "W", "X", "Y", "Z", "[", "\\", "]", "^", "_",
     "grave", "a", "b", "c", "d", "e", "f", "g", "h", "i", "j", "k", "l", "m", "n", "o",
     "p", "q", "r", "s", "t", "u", "v", "w", "x", "y", "z", "{", "|", "}", "~"
  >>

\* ord() of a printable ASCII character.
Ord(c) == 31 + (CHOOSE i \in 1..95 : Ascii[i] = c)

RECURSIVE Str(_)
\* The text (sequence of code points) of a tuple of ASCII characters.
Str(cs) == IF cs = <<>> THEN <<>> ELSE <<Ord(Head(cs))>> \o Str(Tail(cs))

\* str.isprintable() of one character, from the Unicode database for
\* code points below 256, and for the euro sign U+20AC.
isprintable(c) ==
  \/ c \in 32..126
  \/ c \in 161..255 /\ c # 173
  \/ c = 8364

\* str.isalnum() of one character, same range.
isalnum(c) ==
  \/ c \in 48..57
  \/ c \in 65..90
  \/ c \in 97..122
  \/ c \in {170, 178, 179, 181, 185, 186, 188, 189, 190}
  \/ c \in 192..255 /\ c # 215 /\ c # 247

Null == [t |-> "null"]
Bytes(b) == [t |-> "bytes", b |-> b]
PyStr(s) == [t |-> "str", s |-> s]
PyInt(n) == [t |-> "int", n |-> n]
\* An exception leaving the function.
Raise == [t |-> "raise"]
\* arg did not come out of the test generator.
NotGenerated == [t |-> "not generated"]

isinstance_bytes(v) == v.t = "bytes"
isinstance_str(v) == v.t = "str"

\* Python truth value: None, b"", "", 0, False, [] and {} are false.
truthy(v) ==
  CASE v.t = "null" -> FALSE
    [] v.t = "bytes" -> Len(v.b) > 0
    [] v.t = "str" -> Len(v.s) > 0
    [] v.t = "int" -> v.n # 0
    [] v.t = "bool" -> v.v
    [] v.t = "list" -> Len(v.items) > 0
    [] v.t = "dict" -> Len(v.members) > 0
    [] OTHER -> TRUE

\* s[from:] for 0-based from.
SliceFrom(s, from) == SubSeq(s, from + 1, Len(s))

\* ''.join(c for c in s if c.isprintable())
filter_printable(s) == SelectSeq(s, isprintable)

all_printable(s) == \A k \in 1..Len(s) : isprintable(s[k])

RECURSIVE strip_left(_, _), strip_right(_, _)
strip_left(s, cs) ==
  IF s # <<>> /\ Head(s) \in cs THEN strip_left(Tail(s), cs) ELSE s
strip_right(s, cs) ==
  IF s # <<>> /\ s[Len(s)] \in cs
    THEN strip_right(SubSeq(s, 1, Len(s) - 1), cs) ELSE s
\* str.strip(chars)
strip_chars(s, cs) == strip_right(strip_left(s, cs), cs)

\* Characters removed by str.strip() without argument (str.isspace) among
\* the code points below 256.
Whitespace == {9, 10, 11, 12, 13, 28, 29, 30, 31, 32, 133, 160}
strip(s) == strip_chars(s, Whitespace)

(***************************************************************************)
(* bytes.decode('utf-8', errors='ignore')                                  *)
(***************************************************************************)

IsCont(x) == x \in 128..191

\* Index after the run of ASCII bytes that starts at b[i].
ascii_end(b, i) ==
  LET stops == {j \in i..Len(b) : b[j] >= 128}
  IN IF stops = {} THEN Len(b) + 1
     ELSE CHOOSE j \in stops : \A k \in stops : j <= k

RECURSIVE utf8_from(_, _)
\* Decode b[i..], dropping every byte the decoder reports as an error: an
\* invalid start byte, a lead byte whose continuation is wrong (the lead
\* and the continuation bytes accepted so far are dropped, decoding resumes
\* at the offending byte), a sequence cut off by the end of the data.
utf8_from(b, i) ==
  IF i > Len(b) THEN <<>>
  ELSE
    LET ch == b[i]
        n == Len(b) - i + 1
    IN
    IF ch < 128 THEN SubSeq(b, i, ascii_end(b, i) - 1) \o utf8_from(b, ascii_end(b, i))
    ELSE IF ch < 194 THEN utf8_from(b, i + 1)
    ELSE IF ch < 224 THEN
      IF n < 2 THEN <<>>
      ELSE IF ~IsCont(b[i + 1]) THEN utf8_from(b, i + 1)
      ELSE <<(ch - 192) * 64 + (b[i + 1] - 128)>> \o utf8_from(b, i + 2)
    ELSE IF ch < 240 THEN
      IF n < 2 THEN <<>>
      ELSE IF \/ ~IsCont(b[i + 1])
              \/ (IF b[i + 1] < 160 THEN ch = 224 ELSE ch = 237)
        THEN utf8_from(b, i + 1)
      ELSE IF n < 3 THEN <<>>
      ELSE IF ~IsCont(b[i + 2]) THEN utf8_from(b, i + 2)
      ELSE <<(ch - 224) * 4096 + (b[i + 1] - 128) * 64 + (b[i + 2] - 128)>>
             \o utf8_from(b, i + 3)
    ELSE IF ch < 245 THEN
      IF n < 2 THEN <<>>
      ELSE IF \/ ~IsCont(b[i + 1])
              \/ (IF b[i + 1] < 144 THEN ch = 240 ELSE ch = 244)
        THEN utf8_from(b, i + 1)
      ELSE IF n < 3 THEN <<>>
      ELSE IF ~IsCont(b[i + 2]) THEN utf8_from(b, i + 2)
      ELSE IF n < 4 THEN <<>>
      ELSE IF ~IsCont(b[i + 3]) THEN utf8_from(b, i + 3)
      ELSE <<(ch - 240) * 262144 + (b[i + 1] - 128) * 4096
               + (b[i + 2] - 128) * 64 + (b[i + 3] - 128)>>
             \o utf8_from(b, i + 4)
    ELSE utf8_from(b, i + 1)

utf8_ignore(b) == utf8_from(b, 1)

(***************************************************************************)
(* Bounds of the key inputs                                                *)
(***************************************************************************)

\* Longest key blob drawn from KeyAlphabet.
MaxKeyLen == 4

\* Bytes of the key blobs: NUL and a control byte, a space and a letter,
\* the two bytes of U+00E9 (a printable letter) and a byte that is never
\* valid UTF-8.
KeyAlphabet == {0, 1, 32, 97, 195, 169, 255}

RECURSIVE SeqsUpTo(_, _)
\* All sequences over S of length 0..n.
SeqsUpTo(S, n) ==
  IF n = 0 THEN {<<>>}
  ELSE LET shorter == SeqsUpTo(S, n - 1)
       IN shorter \cup {Append(s, x) : s \in {q \in shorter : Len(q) = n - 1}, x \in S}

RECURSIVE Rep(_, _)
\* n copies of x.
Rep(x, n) == IF n = 0 THEN <<>> ELSE <<x>> \o Rep(x, n - 1)

(***************************************************************************)
(* decode_key                                                              *)
(***************************************************************************)

\* The offset scan tries at most this many start offsets.
MaxOffsets == 20

Min(a, b) == IF a < b THEN a ELSE b

RECURSIVE digits(_)
digits(n) == IF n < 10 THEN <<48 + n>> ELSE digits(n \div 10) \o <<48 + (n % 10)>>

\* str(v) of a non-bytes row value.
str(v) ==
  CASE v.t = "int" -> IF v.n < 0 THEN <<45>> \o digits(0 - v.n) ELSE digits(v.n)
    [] v.t = "str" -> v.s
    [] v.t = "null" -> Str(<<"N", "o", "n", "e">>)

RECURSIVE offset_scan_unfiltered(_, _)
\* offset_scan returning the decoded suffix itself, not its printable
\* characters.
offset_scan_unfiltered(b, offset) ==
  IF offset >= Min(MaxOffsets, Len(b)) THEN Null
  ELSE
    LET test == utf8_ignore(SliceFrom(b, offset))
    IN IF test # <<>> /\ Len(test) >= 2
         THEN PyStr(test)
         ELSE offset_scan_unfiltered(b, offset + 1)

RECURSIVE offset_scan_skipping(_, _)
\* offset_scan over range(1, min(20, len(key_blob))): the first byte is
\* always skipped.
offset_scan_skipping(b, offset) ==
  IF offset = 0 THEN offset_scan_skipping(b, 1)
  ELSE IF offset >= Min(MaxOffsets, Len(b)) THEN Null
  ELSE
    LET test == utf8_ignore(SliceFrom(b, offset))
        cleaned == filter_printable(test)
    IN IF cleaned # <<>> /\ Len(cleaned) >= 2
         THEN PyStr(cleaned)
         ELSE offset_scan_skipping(b, offset + 1)

RECURSIVE offset_scan(_, _)
\* for offset in range(min(20, len(key_blob))): the first offset whose
\* suffix, decoded and filtered to printable characters, has at least two
\* characters wins.
offset_scan(b, offset) ==
  IF offset >= Min(MaxOffsets, Len(b)) THEN Null
  ELSE
    LET test == utf8_ignore(SliceFrom(b, offset))
        cleaned == filter_printable(test)
    IN IF cleaned # <<>> /\ Len(cleaned) >= 2
         THEN PyStr(cleaned)
         ELSE offset_scan(b, offset + 1)

\* decode_key of extract_firefox_extension_data.py
decode_key(key_blob) ==
  IF ~truthy(key_blob) THEN Null
  ELSE IF ~isinstance_bytes(key_blob) THEN PyStr(str(key_blob))
  ELSE
    LET decoded == strip_chars(utf8_ignore(key_blob.b), {0})
    IN IF decoded # <<>> /\ all_printable(decoded)
         THEN PyStr(decoded)
         ELSE offset_scan(key_blob.b, 0)

\* BlobDecoder.decode_key.  A non-bytes value has no decode(): strategy 1
\* swallows the AttributeError; strategy 2 then calls len(), which raises
\* TypeError for a number, and for a string every offset fails inside the
\* try and key_blob.hex() raises AttributeError after the loop.
BlobDecoder_decode_key(key_blob) ==
  IF ~truthy(key_blob) THEN Null
  ELSE IF ~isinstance_bytes(key_blob) THEN Raise
  ELSE
    LET decoded == strip_chars(utf8_ignore(key_blob.b), {0})
    IN IF decoded # <<>> /\ Len(decoded) >= 2 /\ all_printable(decoded)
         THEN PyStr(decoded)
         ELSE offset_scan(key_blob.b, 0)

(***************************************************************************)
(* json.dumps and json.loads                                               *)
(*                                                                         *)
(* A JSON value is a Python value: [t |-> "null"], [t |-> "bool", v],      *)
(* [t |-> "int", n], [t |-> "float", lex], [t |-> "str", s],               *)
(* [t |-> "list", items], [t |-> "dict", members] with members a sequence  *)
(* of <<key, value>> in insertion order.                                   *)
(***************************************************************************)

PyBool(v) == [t |-> "bool", v |-> v]
PyFloat(lex) == [t |-> "float", lex |-> lex]
PyList(items) == [t |-> "list", items |-> items]
PyDict(members) == [t |-> "dict", members |-> members]

LBrace == Ord("{")
RBrace == Ord("}")
LBracket == Ord("[")
RBracket == Ord("]")
Quote == Ord("\"")
Backslash == Ord("\\")
Colon == Ord(":")
Comma == Ord(",")
Space == Ord(" ")
Minus == Ord("-")
Zero == Ord("0")

HexDigits == Str(<<"0", "1", "2", "3", "4", "5", "6", "7", "8", "9", "a", "b", "c", "d", "e", "f">>)

\* \uXXXX of a code point below 65536.
u_escape(c) ==
  <<Backslash, Ord("u"), HexDigits[(c \div 4096) + 1], HexDigits[((c \div 256) % 16) + 1],
    HexDigits[((c \div 16) % 16) + 1], HexDigits[(c % 16) + 1]>>

\* The escape of one character under ensure_ascii.
escape_char(c) ==
  CASE c = Quote -> <<Backslash, Quote>>
    [] c = Backslash -> <<Backslash, Backslash>>
    [] c = 10 -> <<Backslash, Ord("n")>>
    [] c = 13 -> <<Backslash, Ord("r")>>
    [] c = 9 -> <<Backslash, Ord("t")>>
    [] c = 8 -> <<Backslash, Ord("b")>>
    [] c = 12 -> <<Backslash, Ord("f")>>
    [] c \in 32..126 -> <<c>>
    [] OTHER -> u_escape(c)

RECURSIVE escape_string(_)
escape_string(s) ==
  IF s = <<>> THEN <<>> ELSE escape_char(Head(s)) \o escape_string(Tail(s))

RECURSIVE json_dumps(_), dumps_items(_), dumps_members(_)
\* json.dumps(x) with the default separators ", " and ": ".
json_dumps(x) ==
  CASE x.t = "null" -> Str(<<"n", "u", "l", "l">>)
    [] x.t = "bool" -> IF x.v THEN Str(<<"t", "r", "u", "e">>)
                              ELSE Str(<<"f", "a", "l", "s", "e">>)
    [] x.t = "int" -> str(x)
    [] x.t = "float" -> x.lex
    [] x.t = "str" -> <<Quote>> \o escape_string(x.s) \o <<Quote>>
    [] x.t = "list" -> <<LBracket>> \o dumps_items(x.items) \o <<RBracket>>
    [] x.t = "dict" -> <<LBrace>> \o dumps_members(x.members) \o <<RBrace>>
dumps_items(items) ==
  IF items = <<>> THEN <<>>
  ELSE json_dumps(Head(items))
         \o (IF Len(items) > 1 THEN <<Comma, Space>> \o dumps_items(Tail(items)) ELSE <<>>)
dumps_members(members) ==
  IF members = <<>> THEN <<>>
  ELSE <<Quote>> \o escape_string(Head(members)[1]) \o <<Quote, Colon, Space>>
         \o json_dumps(Head(members)[2])
         \o (IF Len(members) > 1 THEN <<Comma, Space>> \o dumps_members(Tail(members)) ELSE <<>>)

RECURSIVE utf8_encode(_)
\* str.encode('utf-8') for code points below 65536.
utf8_encode(s) ==
  IF s = <<>> THEN <<>>
  ELSE LET c == Head(s)
       IN (IF c < 128 THEN <<c>>
           ELSE IF c < 2048 THEN <<192 + (c \div 64), 128 + (c % 64)>>
           ELSE <<224 + (c \div 4096), 128 + ((c \div 64) % 64), 128 + (c % 64)>>)
            \o utf8_encode(Tail(s))

Fail == [ok |-> FALSE]

\* Deepest nesting of objects and arrays the C scanner enters: one more and
\* Py_EnterRecursiveCall raises RecursionError.  It is what is left of
\* sys.getrecursionlimit() when json.loads is called, 993 for a call from
\* the top level of a script; small here.
RecursionLimit == 6

\* Frames the scanner needs to build the JSONDecodeError of a syntax error
\* it reports from inside a container.
ErrFrames == 3

\* json.loads left by RecursionError, which is not a JSONDecodeError.
RecursionError == [ok |-> FALSE, error |-> "RecursionError"]

\* raise_errmsg with depth containers open: the JSONDecodeError, or the
\* RecursionError raised while building it.
ErrMsg(depth) == IF depth + ErrFrames > RecursionLimit THEN RecursionError ELSE Fail

\* The result of scanstring called with depth containers open.
at_depth(r, depth) == IF r.ok THEN r ELSE ErrMsg(depth)
Ok(v, j) == [ok |-> TRUE, val |-> v, next |-> j]

JsonWhitespace == {32, 9, 10, 13}

RECURSIVE skip_ws(_, _)
skip_ws(s, i) == IF i <= Len(s) /\ s[i] \in JsonWhitespace THEN skip_ws(s, i + 1) ELSE i

IsDigit(c) == c \in 48..57

RECURSIVE skip_digits(_, _)
skip_digits(s, i) == IF i <= Len(s) /\ IsDigit(s[i]) THEN skip_digits(s, i + 1) ELSE i

RECURSIVE int_of(_)
\* int() of a string of digits.
int_of(ds) == IF ds = <<>> THEN 0 ELSE int_of(SubSeq(ds, 1, Len(ds) - 1)) * 10 + (ds[Len(ds)] - Zero)

\* s[i..] starts with the word w.
starts_with_at(s, i, w) ==
  i + Len(w) - 1 <= Len(s) /\ SubSeq(s, i, i + Len(w) - 1) = w

\* NUMBER_RE.match(s, i): -?(0|[1-9]\d*)(\.\d+)?([eE][-+]?\d+)?
match_number(s, i) ==
  LET neg == i <= Len(s) /\ s[i] = Minus
      d0 == IF neg THEN i + 1 ELSE i
  IN IF d0 > Len(s) \/ ~IsDigit(s[d0]) THEN Fail
     ELSE
       LET intEnd == IF s[d0] = Zero THEN d0 + 1 ELSE skip_digits(s, d0)
           hasFrac == /\ intEnd + 1 <= Len(s)
                      /\ s[intEnd] = Ord(".")
                      /\ IsDigit(s[intEnd + 1])
           fracEnd == IF hasFrac THEN skip_digits(s, intEnd + 1) ELSE intEnd
           signEnd == IF /\ fracEnd + 1 <= Len(s)
                         /\ s[fracEnd + 1] \in {Ord("+"), Minus}
                        THEN fracEnd + 2 ELSE fracEnd + 1
           hasExp == /\ fracEnd <= Len(s)
                     /\ s[fracEnd] \in {Ord("e"), Ord("E")}
                     /\ signEnd <= Len(s)
                     /\ IsDigit(s[signEnd])
           expEnd == IF hasExp THEN skip_digits(s, signEnd) ELSE fracEnd
           magnitude == int_of(SubSeq(s, d0, intEnd - 1))
       IN IF hasFrac \/ hasExp
            THEN Ok(PyFloat(SubSeq(s, i, expEnd - 1)), expEnd)
            ELSE Ok(PyInt(IF neg THEN 0 - magnitude ELSE magnitude), expEnd)

HexValue(c) ==
  IF IsDigit(c) THEN c - 48
  ELSE IF c \in 97..102 THEN c - 87
  ELSE IF c \in 65..70 THEN c - 55
  ELSE -1

\* The character a one-letter escape stands for, 0 - 1 when there is none.
unescape(e) ==
  CASE e = Quote -> Quote
    [] e = Backslash -> Backslash
    [] e = Ord("/") -> Ord("/")
    [] e = Ord("b") -> 8
    [] e = Ord("f") -> 12
    [] e = Ord("n") -> 10
    [] e = Ord("r") -> 13
    [] e = Ord("t") -> 9
    [] OTHER -> -1

RECURSIVE scanstring(_, _, _)
\* json.decoder.scanstring in strict mode, from the character after the
\* opening quote; surrogate pairs are not joined.
scanstring(s, i, acc) ==
  IF i > Len(s) THEN Fail
  ELSE IF s[i] = Quote THEN Ok(PyStr(acc), i + 1)
  ELSE IF s[i] < 32 THEN Fail
  ELSE IF s[i] # Backslash THEN scanstring(s, i + 1, Append(acc, s[i]))
  ELSE IF i + 1 > Len(s) THEN Fail
  ELSE IF s[i + 1] = Ord("u") THEN
    IF i + 5 > Len(s) \/ \E k \in 2..5 : HexValue(s[i + k]) < 0 THEN Fail
    ELSE scanstring(s, i + 6,
           Append(acc, HexValue(s[i + 2]) * 4096 + HexValue(s[i + 3]) * 256
                         + HexValue(s[i + 4]) * 16 + HexValue(s[i + 5])))
  ELSE IF unescape(s[i + 1]) < 0 THEN Fail
  ELSE scanstring(s, i + 2, Append(acc, unescape(s[i + 1])))

\* dict[key] = value: a repeated key keeps its place and takes the new value.
dict_put(members, key, value) ==
  IF \E k \in 1..Len(members) : members[k][1] = key
    THEN [k \in 1..Len(members) |->
            IF members[k][1] = key THEN <<key, value>> ELSE members[k]]
    ELSE Append(members, <<key, value>>)

RECURSIVE scan_once(_, _, _), array_items(_, _, _, _), object_members(_, _, _, _)
\* The scanner of json.scanner: one JSON value starting exactly at s[i],
\* with depth containers open.  Fail is StopIteration here, which
\* raw_decode turns into JSONDecodeError outside the scanner.
scan_once(s, i, depth) ==
  IF i > Len(s) THEN Fail
  ELSE IF s[i] = Quote THEN at_depth(scanstring(s, i + 1, <<>>), depth)
  ELSE IF s[i] = LBrace THEN
    LET j == skip_ws(s, i + 1)
    IN IF depth >= RecursionLimit THEN RecursionError
       ELSE IF j > Len(s) THEN ErrMsg(depth + 1)
       ELSE IF s[j] = RBrace THEN Ok(PyDict(<<>>), j + 1)
       ELSE IF s[j] # Quote THEN ErrMsg(depth + 1)
       ELSE object_members(s, j + 1, <<>>, depth + 1)
  ELSE IF s[i] = LBracket THEN
    LET j == skip_ws(s, i + 1)
    IN IF depth >= RecursionLimit THEN RecursionError
       ELSE IF j <= Len(s) /\ s[j] = RBracket THEN Ok(PyList(<<>>), j + 1)
       ELSE array_items(s, j, <<>>, depth + 1)
  ELSE IF starts_with_at(s, i, Str(<<"n", "u", "l", "l">>)) THEN Ok(Null, i + 4)
  ELSE IF starts_with_at(s, i, Str(<<"t", "r", "u", "e">>)) THEN Ok(PyBool(TRUE), i + 4)
  ELSE IF starts_with_at(s, i, Str(<<"f", "a", "l", "s", "e">>)) THEN Ok(PyBool(FALSE), i + 5)
  ELSE IF match_number(s, i).ok THEN match_number(s, i)
  ELSE IF starts_with_at(s, i, Str(<<"N", "a", "N">>))
    THEN Ok(PyFloat(Str(<<"N", "a", "N">>)), i + 3)
  ELSE IF starts_with_at(s, i, Str(<<"I", "n", "f", "i", "n", "i", "t", "y">>))
    THEN Ok(PyFloat(SubSeq(s, i, i + 7)), i + 8)
  ELSE IF starts_with_at(s, i, Str(<<"-", "I", "n", "f", "i", "n", "i", "t", "y">>))
    THEN Ok(PyFloat(SubSeq(s, i, i + 8)), i + 9)
  ELSE Fail
\* JSONArray after the first value position: value, then ']' or ','.
array_items(s, i, acc, depth) ==
  LET r == scan_once(s, i, depth)
  IN IF ~r.ok THEN r
     ELSE LET j == skip_ws(s, r.next)
          IN IF j > Len(s) THEN ErrMsg(depth)
             ELSE IF s[j] = RBracket THEN Ok(PyList(Append(acc, r.val)), j + 1)
             ELSE IF s[j] # Comma THEN ErrMsg(depth)
             ELSE array_items(s, skip_ws(s, j + 1), Append(acc, r.val), depth)
\* JSONObject after the opening quote of a key: key, ':', value, then '}'
\* or ',' and the next key.
object_members(s, i, acc, depth) ==
  LET k == scanstring(s, i, <<>>)
  IN IF ~k.ok THEN ErrMsg(depth)
     ELSE LET c == skip_ws(s, k.next)
          IN IF c > Len(s) \/ s[c] # Colon THEN ErrMsg(depth)
             ELSE LET v == scan_once(s, skip_ws(s, c + 1), depth)
                  IN IF ~v.ok THEN v
                     ELSE LET e == skip_ws(s, v.next)
                              put == dict_put(acc, k.val.s, v.val)
                          IN IF e > Len(s) THEN ErrMsg(depth)
                             ELSE IF s[e] = RBrace THEN Ok(PyDict(put), e + 1)
                             ELSE IF s[e] # Comma THEN ErrMsg(depth)
                             ELSE LET q == skip_ws(s, e + 1)
                                  IN IF q > Len(s) \/ s[q] # Quote THEN ErrMsg(depth)
                                     ELSE object_members(s, q + 1, put, depth)

\* json.loads(s): one value between optional whitespace, nothing after it;
\* Fail stands for JSONDecodeError.
json_loads(s) ==
  LET r == scan_once(s, skip_ws(s, 1), 0)
  IN IF ~r.ok THEN r
     ELSE IF skip_ws(s, r.next) # Len(s) + 1 THEN Fail
     ELSE r

(***************************************************************************)
(* decode_data                                                             *)
(***************************************************************************)

PyTuple(data_str, parsed) == [t |-> "tuple", data_str |-> data_str, parsed |-> parsed]

\* find_json_start looking for '{' alone.
find_brace_only(data_str, i) ==
  LET starts == {k \in i..Len(data_str) : data_str[k] = LBrace}
  IN IF starts = {} THEN -1
     ELSE (CHOOSE k \in starts : \A j \in starts : k <= j) - 1

\* for i, char in enumerate(data_str): the 0-based index of the first '['
\* or '{' at or after position i, or -1.
find_json_start(data_str, i) ==
  LET starts == {k \in i..Len(data_str) : data_str[k] = LBracket \/ data_str[k] = LBrace}
  IN IF starts = {} THEN -1
     ELSE (CHOOSE k \in starts : \A j \in starts : k <= j) - 1

\* try: parsed = json.loads(json_candidate), return json_candidate, parsed;
\* except json.JSONDecodeError: return data_str, None.  Any other exception
\* reaches the outer except Exception: return None, None.
candidate_or_raw(data_str, json_candidate, parsed) ==
  IF parsed.ok
    THEN PyTuple(PyStr(json_candidate), parsed.val)
  ELSE IF parsed = RecursionError
    THEN PyTuple(Null, Null)
  ELSE PyTuple(PyStr(data_str), Null)

\* BlobDecoder.decode_data.  A non-bytes value has no decode(): the
\* AttributeError is caught by the outer except and gives (None, None).
BlobDecoder_decode_data(data_blob) ==
  IF ~truthy(data_blob) THEN PyTuple(Null, Null)
  ELSE IF ~isinstance_bytes(data_blob) THEN PyTuple(Null, Null)
  ELSE
    LET data_str == utf8_ignore(data_blob.b)
        json_start == find_json_start(data_str, 1)
    IN IF json_start >= 0
         THEN candidate_or_raw(data_str, SliceFrom(data_str, json_start),
                               json_loads(SliceFrom(data_str, json_start)))
         ELSE PyTuple(PyStr(data_str), Null)

\* try: return json.loads(...); except: None
loads_or_none(parsed) == IF parsed.ok THEN parsed.val ELSE Null

\* decode_data of extract_firefox_extension_data.py
decode_data(data_blob) ==
  IF ~truthy(data_blob) THEN Null
  ELSE IF ~isinstance_bytes(data_blob) THEN
    IF isinstance_str(data_blob)
      THEN loads_or_none(json_loads(data_blob.s))
      ELSE Null
  ELSE
    LET data_str == utf8_ignore(data_blob.b)
        json_start == find_json_start(data_str, 1)
    IN IF json_start >= 0
         THEN loads_or_none(json_loads(SliceFrom(data_str, json_start)))
         ELSE Null

(***************************************************************************)
(* The test generator's encoders                                           *)
(***************************************************************************)

\* encode_key: prefix b'\x00\x01'
encode_key(key_str) == <<0, 1>> \o utf8_encode(key_str)

\* encode_data: prefix b'\x00\x00\x01\x00' before json.dumps(data)
encode_data(data) == <<0, 0, 1, 0>> \o utf8_encode(json_dumps(data))

(***************************************************************************)
(* Bounds of the data inputs                                               *)
(***************************************************************************)

\* Longest list, and most members of a dict, in the stored values.
MaxItems == 2
\* Longest metadata prefix drawn from PrefixAlphabet.
MaxPrefixLen == 2
\* Longest body of a blob that is not a JSON document.
MaxJunkLen == 3

\* Prefix bytes: NUL, a control byte, a UTF-8 lead byte, an invalid byte.
PrefixAlphabet == {0, 1, 195, 255}
JunkAlphabet == {LBrace, RBrace, LBracket, RBracket, Comma, Ord("1")}

Scalars ==
  {PyInt(1), PyInt(14), PyStr(Str(<<"a">>)), PyStr(Str(<<"{">>)), PyBool(TRUE)}

DictKeys == {Str(<<"a">>), Str(<<"i", "d">>)}

Lists == {PyList(items) : items \in SeqsUpTo(Scalars, MaxItems)}

Dicts ==
  {PyDict(<<>>)}
    \cup {PyDict(<<<<k, v>>>>) : k \in DictKeys, v \in Scalars}
    \cup (IF MaxItems < 2 THEN {}
          ELSE {PyDict(<<<<ks[1], v1>>, <<ks[2], v2>>>>) :
                  ks \in {q \in DictKeys \X DictKeys : q[1] # q[2]},
                  v1 \in Scalars, v2 \in Scalars})

\* Values shaped like the generator's test_data: a list of records holding
\* a list, and a record of records.
Nested ==
  {PyList(<<PyDict(<<<<Str(<<"i", "d">>), PyStr(Str(<<"g", "1">>))>>,
                     <<Str(<<"a">>), PyList(<<PyInt(1), PyBool(FALSE)>>)>>>>)>>),
   PyDict(<<<<Str(<<"a">>), PyDict(<<<<Str(<<"a">>), PyInt(-3)>>>>)>>>>),
   PyList(<<Null>>)}

JsonValues == Scalars \cup Lists \cup Dicts \cup Nested

DataPrefixes == SeqsUpTo(PrefixAlphabet, MaxPrefixLen) \cup {<<0, 0, 1, 0>>}

\* Blobs nested as deep as the scanner goes and one deeper, left open and
\* closed.
DeepBlobs ==
  {Bytes(p \o Rep(LBracket, n) \o body \o Rep(RBracket, m)) :
     p \in {<<>>, <<0>>}, n \in (RecursionLimit - ErrFrames)..(RecursionLimit + 1),
     body \in {<<>>, <<Zero + 1>>}, m \in {0, RecursionLimit, RecursionLimit + 1}}

\* Row values that are not byte sequences.
NonBytesData ==
  {Null, PyInt(0), PyInt(5), PyStr(<<>>), PyStr(Str(<<"x">>)),
   PyStr(json_dumps(PyDict(<<<<Str(<<"a">>), PyInt(1)>>>>))),
   PyStr(Str(<<"n", "u", "l", "l">>))}

(***************************************************************************)
(* Specification of the data decoders: one call on one input               *)
(***************************************************************************)

DataTools == {"decode_data", "BlobDecoder.decode_data"}

Generated(prefix, value) == [t |-> "generated", prefix |-> prefix, value |-> value]

InitData ==
  /\ NoBatch
  /\ pc = "call"
  /\ tool \in DataTools
  /\ \/ \E p \in DataPrefixes, x \in JsonValues :
          /\ arg = Bytes(p \o utf8_encode(json_dumps(x)))
          /\ stored = Generated(p, x)
     \/ /\ arg \in {Bytes(p \o body) :
                      p \in DataPrefixes, body \in SeqsUpTo(JunkAlphabet, MaxJunkLen)}
                     \cup DeepBlobs \cup NonBytesData
        /\ stored = NotGenerated
  /\ ret = Null
  /\ spans = <<>>
  /\ NoLoop

Call_decode_data ==
  /\ pc = "call"
  /\ tool = "decode_data"
  /\ ret' = decode_data(arg)
  /\ pc' = "return"
  /\ UNCHANGED <<spans, callFrame>>

Call_BlobDecoder_decode_data ==
  /\ pc = "call"
  /\ tool = "BlobDecoder.decode_data"
  /\ ret' = BlobDecoder_decode_data(arg)
  /\ pc' = "return"
  /\ UNCHANGED <<spans, callFrame>>

NextData == Call_decode_data \/ Call_BlobDecoder_decode_data

SpecData == InitData /\ [][NextData]_vars

(***************************************************************************)
(* Field scanning: parse_make_it_pop_entry and parse_structured_data       *)
(***************************************************************************)

\* The characters of every field name the two parsers look for.
FieldChars ==
  [id |-> Str(<<"i", "d">>),
   name |-> Str(<<"n", "a", "m", "e">>),
   lightBgColor |-> Str(<<"l", "i", "g", "h", "t", "B", "g", "C", "o", "l", "o", "r">>),
   lightTextColor |-> Str(<<"l", "i", "g", "h", "t", "T", "e", "x", "t", "C", "o", "l", "o", "r">>),
   darkBgColor |-> Str(<<"d", "a", "r", "k", "B", "g", "C", "o", "l", "o", "r">>),
   darkTextColor |-> Str(<<"d", "a", "r", "k", "T", "e", "x", "t", "C", "o", "l", "o", "r">>),
   phrases |-> Str(<<"p", "h", "r", "a", "s", "e", "s">>),
   pattern |-> Str(<<"p", "a", "t", "t", "e", "r", "n">>),
   mode |-> Str(<<"m", "o", "d", "e">>),
   groupIds |-> Str(<<"g", "r", "o", "u", "p", "I", "d", "s">>),
   data |-> Str(<<"d", "a", "t", "a">>),
   value |-> Str(<<"v", "a", "l", "u", "e">>),
   type |-> Str(<<"t", "y", "p", "e">>),
   enabled |-> Str(<<"e", "n", "a", "b", "l", "e", "d">>),
   disabled |-> Str(<<"d", "i", "s", "a", "b", "l", "e", "d">>),
   url |-> Str(<<"u", "r", "l">>),
   regex |-> Str(<<"r", "e", "g", "e", "x">>),
   rule |-> Str(<<"r", "u", "l", "e">>),
   rules |-> Str(<<"r", "u", "l", "e", "s">>),
   config |-> Str(<<"c", "o", "n", "f", "i", "g">>),
   settings |-> Str(<<"s", "e", "t", "t", "i", "n", "g", "s">>),
   options |-> Str(<<"o", "p", "t", "i", "o", "n", "s">>),
   preferences |-> Str(<<"p", "r", "e", "f", "e", "r", "e", "n", "c", "e", "s">>),
   groups |-> Str(<<"g", "r", "o", "u", "p", "s">>),
   items |-> Str(<<"i", "t", "e", "m", "s">>),
   list |-> Str(<<"l", "i", "s", "t">>),
   array |-> Str(<<"a", "r", "r", "a", "y">>),
   timestamp |-> Str(<<"t", "i", "m", "e", "s", "t", "a", "m", "p">>),
   date |-> Str(<<"d", "a", "t", "e">>),
   created |-> Str(<<"c", "r", "e", "a", "t", "e", "d">>),
   updated |-> Str(<<"u", "p", "d", "a", "t", "e", "d">>),
   modified |-> Str(<<"m", "o", "d", "i", "f", "i", "e", "d">>),
   title |-> Str(<<"t", "i", "t", "l", "e">>),
   description |-> Str(<<"d", "e", "s", "c", "r", "i", "p", "t", "i", "o", "n">>),
   category |-> Str(<<"c", "a", "t", "e", "g", "o", "r", "y">>),
   tags |-> Str(<<"t", "a", "g", "s">>),
   status |-> Str(<<"s", "t", "a", "t", "u", "s">>)]

Chars(field) == FieldChars[field]

\* s[k..] holds sub at 0-based position k.
match_at(s, sub, k) ==
  /\ k + Len(sub) <= Len(s)
  /\ \A j \in 1..Len(sub) : s[k + j] = sub[j]

\* str.find(sub, start): 0-based position of the first occurrence at or
\* after start, -1 when there is none.
find_from(s, sub, start) ==
  LET found == {k \in start..(Len(s) - Len(sub)) : match_at(s, sub, k)}
  IN IF found = {} THEN -1
     ELSE CHOOSE k \in found : \A j \in found : k <= j

find(s, sub) == find_from(s, sub, 0)

\* sub in s
contains(s, sub) == find(s, sub) # -1

\* s.endswith(suffix)
endswith(s, suffix) ==
  Len(suffix) <= Len(s) /\ match_at(s, suffix, Len(s) - Len(suffix))

\* s[from:to] for 0 <= from, to <= len(s); empty when to <= from.
Slice(s, from, to) == SubSeq(s, from + 1, to)

\* s[:n]
Truncate(s, n) == SubSeq(s, 1, Min(n, Len(s)))

\* str.lower() of the characters below 256.
lower_char(c) ==
  IF c \in 65..90 \/ (c \in 192..222 /\ c # 215) THEN c + 32 ELSE c
lower(s) == [k \in 1..Len(s) |-> lower_char(s[k])]

\* before_ok and after_ok: the neighbours of the occurrence of field at
\* 0-based pos, where there are any, are not alphanumeric.
before_ok(decoded, pos) == pos = 0 \/ ~isalnum(decoded[pos])
after_ok(decoded, pos, field) ==
  \/ pos + Len(Chars(field)) >= Len(decoded)
  \/ ~isalnum(decoded[pos + Len(Chars(field)) + 1])
\* The test on the neighbours left out: every occurrence counts.
is_standalone_unchecked(decoded, pos, field) == TRUE

is_standalone(decoded, pos, field) ==
  before_ok(decoded, pos) /\ after_ok(decoded, pos, field)

RECURSIVE field_positions(_, _)
\* field_positions of parse_make_it_pop_entry, as <<field, pos>> in
\* insertion order: for each field the position str.find gives, kept only
\* when that occurrence stands alone.
field_positions(decoded, fields) ==
  IF fields = <<>> THEN <<>>
  ELSE LET field == Head(fields)
           pos == find(decoded, Chars(field))
       IN (IF pos # -1 /\ is_standalone(decoded, pos, field)
             THEN <<<<field, pos>>>> ELSE <<>>)
            \o field_positions(decoded, Tail(fields))

RECURSIVE insert_by_position(_, _)
\* Insert <<field, pos>> after every element whose position is not larger.
insert_by_position(sorted, x) ==
  IF sorted = <<>> THEN <<x>>
  ELSE IF x[2] < Head(sorted)[2] THEN <<x>> \o sorted
  ELSE <<Head(sorted)>> \o insert_by_position(Tail(sorted), x)

\* The positions left in insertion order.
sort_by_position_omitted(items) == items

RECURSIVE sort_by_position(_)
\* sorted(items, key=lambda x: x[1]): stable.
sort_by_position(items) ==
  IF items = <<>> THEN <<>>
  ELSE insert_by_position(sort_by_position(SubSeq(items, 1, Len(items) - 1)),
                          items[Len(items)])

\* sorted(field_positions.items(), key=lambda x: x[1])
sorted_fields(decoded, fields) == sort_by_position(field_positions(decoded, fields))

\* The loop variables field, pos, value_start, value_end of every
\* iteration over the sorted positions.
field_spans(decoded, sorted) ==
  [i \in 1..Len(sorted) |->
     [field |-> sorted[i][1],
      pos |-> sorted[i][2],
      value_start |-> sorted[i][2] + Len(Chars(sorted[i][1])),
      value_end |-> IF i + 1 <= Len(sorted) THEN sorted[i + 1][2] ELSE Len(decoded)]]

visible(c) == isprintable(c) /\ c >= 32

\* ''.join(c for c in value_region if c.isprintable() and ord(c) >= 32).strip()
printable_text(decoded, span) ==
  strip(SelectSeq(Slice(decoded, span.value_start, span.value_end), visible))

RECURSIVE remove_leaked(_, _)
\* for other_field in fields: if value_text.endswith(other_field): cut it
\* off and strip.
remove_leaked(value_text, fields) ==
  IF fields = <<>> THEN value_text
  ELSE remove_leaked(
         IF endswith(value_text, Chars(Head(fields)))
           THEN strip(Truncate(value_text, Len(value_text) - Len(Chars(Head(fields)))))
           ELSE value_text,
         Tail(fields))

IsHex(c) == c \in 48..57 \/ c \in 65..70 \/ c \in 97..102

RECURSIVE hex_run(_, _, _)
\* Number of hexadecimal digits from 0-based position k on, at most n.
hex_run(s, k, n) ==
  IF n = 0 \/ k + 1 > Len(s) \/ ~IsHex(s[k + 1]) THEN 0
  ELSE 1 + hex_run(s, k + 1, n - 1)

MinHexDigits == 6
MaxHexDigits == 8

RECURSIVE hex_search(_, _)
\* re.search(r'#[0-9A-Fa-f]{6,8}', s) from 0-based position k: the
\* matched text, <<>> when nothing matches.
hex_search(s, k) ==
  IF k + 1 > Len(s) THEN <<>>
  ELSE IF s[k + 1] = Ord("#") /\ hex_run(s, k + 1, MaxHexDigits) >= MinHexDigits
    THEN Slice(s, k, k + 1 + hex_run(s, k + 1, MaxHexDigits))
  ELSE hex_search(s, k + 1)

\* Values stored by parse_make_it_pop_entry are cut to this length.
MaxValueLen == 200

group_indicators == <<"lightBgColor", "darkBgColor", "phrases">>
domain_indicators == <<"pattern", "groupIds">>
group_fields ==
  <<"id", "name", "lightBgColor", "lightTextColor", "darkBgColor", "darkTextColor", "phrases">>
domain_fields == <<"id", "pattern", "mode", "groupIds">>

Range(seq) == {seq[k] : k \in 1..Len(seq)}

\* sum(1 for field in group_indicators if field in decoded) >= 2
has_group_fields(decoded) ==
  Cardinality({k \in 1..Len(group_indicators) :
                 contains(decoded, Chars(group_indicators[k]))}) >= 2

\* sum(1 for field in domain_indicators if field in domain_indicators) >= 1
\* The test is on the list itself, not on decoded.
has_domain_fields(decoded) ==
  Cardinality({k \in 1..Len(domain_indicators) :
                 domain_indicators[k] \in Range(domain_indicators)}) >= 1

\* The cleaned text of a span.
value_text_of(decoded, span, fields) ==
  remove_leaked(printable_text(decoded, span), fields)

\* What the group loop stores for a span: <<>> when it stores nothing.
group_value(decoded, span, fields) ==
  LET value_text == value_text_of(decoded, span, fields)
  IN IF value_text = <<>> THEN <<>>
     ELSE IF contains(Chars(span.field), Str(<<"C", "o", "l", "o", "r">>))
       THEN hex_search(value_text, 0)
     ELSE Truncate(value_text, MaxValueLen)

\* The domain loop with 'mode' stored like any other field.
domain_value_unnormalised(decoded, span, fields) ==
  Truncate(value_text_of(decoded, span, fields), MaxValueLen)

\* What the domain loop stores for a span.
domain_value(decoded, span, fields) ==
  LET value_text == value_text_of(decoded, span, fields)
  IN IF value_text = <<>> THEN <<>>
     ELSE IF span.field = "mode"
       THEN IF contains(lower(value_text), Str(<<"l", "i", "g", "h", "t">>))
              THEN Str(<<"l", "i", "g", "h", "t">>)
            ELSE IF contains(lower(value_text), Str(<<"d", "a", "r", "k">>))
              THEN Str(<<"d", "a", "r", "k">>)
            ELSE <<>>
     ELSE Truncate(value_text, MaxValueLen)

\* What the loop over the spans of these fields stores for a span.
stored_value(decoded, span, fields) ==
  IF fields = group_fields THEN group_value(decoded, span, fields)
  ELSE domain_value(decoded, span, fields)

\* The dict a loop builds: the fields whose span stored a value.
record_of(decoded, sp, fields) ==
  LET stored_at == {i \in 1..Len(sp) : stored_value(decoded, sp[i], fields) # <<>>}
  IN [f \in {sp[i].field : i \in stored_at} |->
        stored_value(decoded, sp[CHOOSE i \in stored_at : sp[i].field = f], fields)]

NoEntry == [type |-> "none", data |-> Null]

\* The spans parse_make_it_pop_entry works on: those of the Group fields
\* when the Group branch is taken, else those of the Domain fields.
make_it_pop_spans(data_blob) ==
  IF ~isinstance_bytes(data_blob) THEN <<>>
  ELSE LET decoded == utf8_ignore(data_blob.b)
       IN IF has_group_fields(decoded)
            THEN field_spans(decoded, sorted_fields(decoded, group_fields))
          ELSE IF has_domain_fields(decoded)
            THEN field_spans(decoded, sorted_fields(decoded, domain_fields))
          ELSE <<>>

\* The record the Domain branch builds from a text.
domain_record(decoded) ==
  record_of(decoded, field_spans(decoded, sorted_fields(decoded, domain_fields)),
            domain_fields)

\* parse_make_it_pop_entry with 'if has_domain_fields' in place of 'elif': a
\* rejected Group is tried as a Domain.
parse_make_it_pop_entry_fallback(data_blob) ==
  IF ~isinstance_bytes(data_blob) THEN NoEntry
  ELSE
    LET decoded == utf8_ignore(data_blob.b)
        group == record_of(decoded, field_spans(decoded, sorted_fields(decoded, group_fields)),
                           group_fields)
        domain == domain_record(decoded)
    IN IF has_group_fields(decoded) /\ ("id" \in DOMAIN group \/ "name" \in DOMAIN group)
         THEN [type |-> "group", data |-> group]
       ELSE IF has_domain_fields(decoded) /\ "pattern" \in DOMAIN domain
         THEN [type |-> "domain", data |-> domain]
       ELSE NoEntry

\* parse_make_it_pop_entry without the tests at lines 124 and 171: every
\* record built is returned.
parse_make_it_pop_entry_unchecked(data_blob) ==
  IF ~isinstance_bytes(data_blob) THEN NoEntry
  ELSE
    LET decoded == utf8_ignore(data_blob.b)
        sp == make_it_pop_spans(data_blob)
    IN IF has_group_fields(decoded)
         THEN [type |-> "group", data |-> record_of(decoded, sp, group_fields)]
       ELSE IF has_domain_fields(decoded)
         THEN [type |-> "domain", data |-> record_of(decoded, sp, domain_fields)]
       ELSE NoEntry

\* parse_make_it_pop_entry returning a Domain that holds 'id' or 'pattern'.
parse_make_it_pop_entry_id_suffices(data_blob) ==
  IF ~isinstance_bytes(data_blob) THEN NoEntry
  ELSE
    LET decoded == utf8_ignore(data_blob.b)
        sp == make_it_pop_spans(data_blob)
        group == record_of(decoded, sp, group_fields)
        domain == record_of(decoded, sp, domain_fields)
    IN IF has_group_fields(decoded)
         THEN IF "id" \in DOMAIN group \/ "name" \in DOMAIN group
                THEN [type |-> "group", data |-> group]
                ELSE NoEntry
       ELSE IF has_domain_fields(decoded)
         THEN IF "id" \in DOMAIN domain \/ "pattern" \in DOMAIN domain
                THEN [type |-> "domain", data |-> domain]
                ELSE NoEntry
       ELSE NoEntry

\* parse_make_it_pop_entry: (type, data)
parse_make_it_pop_entry(data_blob) ==
  IF ~isinstance_bytes(data_blob) THEN NoEntry
  ELSE
    LET decoded == utf8_ignore(data_blob.b)
        sp == make_it_pop_spans(data_blob)
        group == record_of(decoded, sp, group_fields)
        domain == record_of(decoded, sp, domain_fields)
    IN IF has_group_fields(decoded)
         THEN IF "id" \in DOMAIN group \/ "name" \in DOMAIN group
                THEN [type |-> "group", data |-> group]
                ELSE NoEntry
       ELSE IF has_domain_fields(decoded)
         THEN IF "pattern" \in DOMAIN domain
                THEN [type |-> "domain", data |-> domain]
                ELSE NoEntry
       ELSE NoEntry

\* Values stored by parse_structured_data are cut to this length.
MaxStructuredLen == 500

known_fields ==
  <<"id", "name", "data", "value", "type", "enabled", "disabled",
    "url", "pattern", "regex", "rule", "rules", "config", "settings",
    "options", "preferences", "groups", "items", "list", "array",
    "timestamp", "date", "created", "updated", "modified", "title",
    "description", "category", "tags", "status">>

RECURSIVE occurrences(_, _, _)
\* The while loop over one field: <<pos, field>> for every occurrence of
\* the field, from the one at pos on, that stands alone.
occurrences(decoded, field, pos) ==
  IF pos = -1 THEN <<>>
  ELSE (IF is_standalone(decoded, pos, field) THEN <<<<pos, field>>>> ELSE <<>>)
         \o occurrences(decoded, field, find_from(decoded, Chars(field), pos + 1))

RECURSIVE all_positions(_, _)
\* field_positions of parse_structured_data before it is sorted.
all_positions(decoded, fields) ==
  IF fields = <<>> THEN <<>>
  ELSE occurrences(decoded, Head(fields), find(decoded, Chars(Head(fields))))
         \o all_positions(decoded, Tail(fields))

RECURSIVE seq_less(_, _)
\* a < b for two strings.
seq_less(a, b) ==
  IF b = <<>> THEN FALSE
  ELSE IF a = <<>> THEN TRUE
  ELSE IF Head(a) # Head(b) THEN Head(a) < Head(b)
  ELSE seq_less(Tail(a), Tail(b))

\* (pos, field) tuples in their natural order.
tuple_less(x, y) ==
  x[1] < y[1] \/ (x[1] = y[1] /\ seq_less(Chars(x[2]), Chars(y[2])))

RECURSIVE insert_tuple(_, _)
insert_tuple(sorted, x) ==
  IF sorted = <<>> THEN <<x>>
  ELSE IF tuple_less(x, Head(sorted)) THEN <<x>> \o sorted
  ELSE <<Head(sorted)>> \o insert_tuple(Tail(sorted), x)

RECURSIVE sort_tuples(_)
\* field_positions.sort()
sort_tuples(items) ==
  IF items = <<>> THEN <<>>
  ELSE insert_tuple(sort_tuples(SubSeq(items, 1, Len(items) - 1)), items[Len(items)])

\* The loop variables of parse_structured_data's extraction loop (start and
\* end under the names of the other parser).
structured_spans(data_blob) ==
  IF ~isinstance_bytes(data_blob) THEN <<>>
  ELSE LET decoded == utf8_ignore(data_blob.b)
           sorted == sort_tuples(all_positions(decoded, known_fields))
       IN [i \in 1..Len(sorted) |->
             [field |-> sorted[i][2],
              pos |-> sorted[i][1],
              value_start |-> sorted[i][1] + Len(Chars(sorted[i][2])),
              value_end |-> IF i + 1 <= Len(sorted) THEN sorted[i + 1][1]
                            ELSE Len(decoded)]]

\* The extraction loop without the [:500] of line 75.
structured_value_uncut(decoded, span) ==
  LET value_text == strip(SelectSeq(Slice(decoded, span.value_start, span.value_end),
                                    isprintable))
  IN IF value_text = <<>> THEN <<>>
     ELSE IF \E k \in 1..Len(known_fields) : lower(value_text) = Chars(known_fields[k])
       THEN <<>>
     ELSE value_text

\* What the extraction loop stores for a span: the printable characters of
\* the region, stripped and cut, unless that is nothing or the name of a
\* known field.
structured_value(decoded, span) ==
  LET value_text == strip(SelectSeq(Slice(decoded, span.value_start, span.value_end),
                                    isprintable))
  IN IF value_text = <<>> THEN <<>>
     ELSE IF \E k \in 1..Len(known_fields) : lower(value_text) = Chars(known_fields[k])
       THEN <<>>
     ELSE Truncate(value_text, MaxStructuredLen)

\* parse_structured_data: the result dict (a later span of a field
\* overwrites an earlier one), None when it is empty.
parse_structured_data(data_blob) ==
  IF ~isinstance_bytes(data_blob) THEN Null
  ELSE
    LET decoded == utf8_ignore(data_blob.b)
        sp == structured_spans(data_blob)
        stored_at == {i \in 1..Len(sp) : structured_value(decoded, sp[i]) # <<>>}
        last(f) == CHOOSE i \in stored_at :
                     /\ sp[i].field = f
                     /\ \A j \in stored_at : sp[j].field = f => j <= i
        fields_stored == [f \in {sp[i].field : i \in stored_at} |->
                            structured_value(decoded, sp[last(f)])]
    IN IF stored_at = {} THEN Null ELSE [t |-> "dict", result |-> fields_stored]

(***************************************************************************)
(* Bounds of the field scanner inputs                                      *)
(***************************************************************************)

\* Most chunks in a text put together from Chunks.
MaxChunks == 3
\* Most words in a text of Words separated by single spaces.
MaxWords == 4

Hex1 == Str(<<"#", "1", "a", "2", "b", "3", "c">>)
Hex2 == Str(<<"#", "4", "d", "5", "e", "6", "f">>)

\* Words: field names of both schemas, a letter, a colour, a mode.
Words ==
  {Chars("id"), Chars("lightBgColor"), Chars("darkBgColor"), Chars("pattern"),
   Str(<<"x">>), Hex1, Str(<<"L", "i", "g", "h", "t">>)}

\* Chunks: the words, two more field names, a space and a NUL.
Chunks == Words \cup {Chars("name"), Chars("mode"), <<Space>>, <<0>>}

RECURSIVE Join(_, _)
\* sep.join(parts)
Join(parts, sep) ==
  IF parts = <<>> THEN <<>>
  ELSE IF Len(parts) = 1 THEN parts[1]
  ELSE Head(parts) \o sep \o Join(Tail(parts), sep)

\* The text of the Group scenario: names and values with nothing between.
UndelimitedGroup ==
  Join(<<Chars("lightBgColor"), Hex1, Chars("darkBgColor"), Hex2, Chars("phrases"),
         Str(<<"f", "o", "o", ",", "b", "a", "r">>)>>, <<>>)

\* A Group as the structured clone holds it, every name and value between
\* NUL bytes, here behind two bytes that are not valid UTF-8.
DelimitedGroup ==
  <<255, 254>> \o
  Join(<<Chars("id"), Str(<<"g", "1">>), Chars("name"), Str(<<"D", "a", "v", "i", "d">>),
         Chars("lightBgColor"), Hex1, Chars("darkBgColor"), Hex2, Chars("phrases"),
         Str(<<"f", "o", "o", ",", "b", "a", "r">>)>>, <<0>>)

\* A Domain text whose first 'id' is the end of a longer word.
EmbeddedId ==
  Join(<<Str(<<"x">>) \o Chars("id"), Chars("id"), Str(<<"7">>), Chars("pattern"),
         Str(<<"x">>)>>, <<Space>>)

\* A Group text whose light colour has 7 hexadecimal digits.
SevenDigits ==
  Join(<<Chars("id"), Str(<<"g">>), Chars("lightBgColor"), Hex1 \o Str(<<"d">>),
         Chars("darkBgColor"), Hex2>>, <<Space>>)

\* What follows 'mode' in the Domain texts.
ModeValues ==
  {Str(<<"L", "i", "g", "h", "t">>), Str(<<"d", "a", "r", "k">>),
   Str(<<"D", "A", "R", "K", "l", "i", "g", "h", "t">>), Str(<<"x", "d", "a", "r", "k", "x">>),
   Str(<<"x">>), Str(<<"l", "i", "t">>)}

\* Domain texts with a mode.
ModeTexts == {Join(<<Chars("pattern"), Str(<<"x">>), Chars("mode"), v>>, <<Space>>) : v \in ModeValues}

\* A Group text in which 'darkBgColor' begins on the last letter of 'id'.
OverlappingNames ==
  Join(<<Str(<<"i">>) \o Chars("darkBgColor"), Hex1, Chars("lightBgColor"), Hex2>>, <<Space>>)

\* A field name and a value as long as a length limit, or one longer.
LongTexts ==
  {Chars(f) \o <<Space>> \o [k \in 1..n |-> Ord("a")] :
     f \in {"pattern", "name"},
     n \in {MaxValueLen, MaxValueLen + 1, MaxStructuredLen, MaxStructuredLen + 1}}

ScanBlobs ==
  {Bytes(utf8_encode(Join(cs, <<>>))) : cs \in SeqsUpTo(Chunks, MaxChunks)}
    \cup {Bytes(utf8_encode(Join(ws, <<Space>>))) : ws \in SeqsUpTo(Words, MaxWords)}
    \cup {Bytes(utf8_encode(UndelimitedGroup)), Bytes(DelimitedGroup)}
    \cup {Bytes(EmbeddedId), Bytes(SevenDigits)}
    \cup {Bytes(t) : t \in ModeTexts}
    \cup {Bytes(t) : t \in LongTexts}
    \cup {Bytes(OverlappingNames)}

(***************************************************************************)
(* Specification of the field scanners: one call on one blob               *)
(***************************************************************************)

ScanTools == {"parse_make_it_pop_entry", "parse_structured_data"}

InitScan ==
  /\ NoBatch
  /\ pc = "call"
  /\ tool \in ScanTools
  /\ arg \in ScanBlobs \cup {Null, PyStr(Chars("id"))}
  /\ stored = NotGenerated
  /\ ret = Null
  /\ spans = <<>>
  /\ NoLoop

Call_parse_make_it_pop_entry ==
  /\ pc = "call"
  /\ tool = "parse_make_it_pop_entry"
  /\ spans' = make_it_pop_spans(arg)
  /\ ret' = parse_make_it_pop_entry(arg)
  /\ pc' = "return"
  /\ UNCHANGED callFrame

Call_parse_structured_data ==
  /\ pc = "call"
  /\ tool = "parse_structured_data"
  /\ spans' = structured_spans(arg)
  /\ ret' = parse_structured_data(arg)
  /\ pc' = "return"
  /\ UNCHANGED callFrame

NextScan == Call_parse_make_it_pop_entry \/ Call_parse_structured_data

SpecScan == InitScan /\ [][NextScan]_vars

(***************************************************************************)
(* extract_readable_text, identify_data_type, bytes.hex                    *)
(***************************************************************************)

\* Shortest run of printable ASCII that re.findall returns.
MinRun == 3

RECURSIVE run_length(_, _)
\* Length of the run of characters in 0x20..0x7e that starts at 0-based k.
run_length(s, k) ==
  IF k + 1 > Len(s) \/ s[k + 1] \notin 32..126 THEN 0
  ELSE 1 + run_length(s, k + 1)

RECURSIVE findall_runs(_, _)
\* re.findall(r'[\x20-\x7e]{3,}', s) from 0-based position k.
findall_runs(s, k) ==
  IF k + 1 > Len(s) THEN <<>>
  ELSE IF run_length(s, k) >= MinRun
    THEN <<Slice(s, k, k + run_length(s, k))>> \o findall_runs(s, k + run_length(s, k))
  ELSE findall_runs(s, k + 1)

nonempty(x) == x # <<>>

\* extract_readable_text
extract_readable_text(data_blob) ==
  IF ~isinstance_bytes(data_blob) THEN <<>>
  ELSE LET strings == findall_runs(utf8_ignore(data_blob.b), 0)
       IN SelectSeq([k \in 1..Len(strings) |-> strip(strings[k])], nonempty)

\* bytes.hex()
hex(b) ==
  Join([k \in 1..Len(b) |-> <<HexDigits[(b[k] \div 16) + 1], HexDigits[(b[k] % 16) + 1]>>],
       <<>>)

\* Longest prefix of a key shown in key_hex, in bytes.
KeyHexBytes == 20
\* Longest data_preview.
PreviewLen == 200

keywords ==
  <<Str(<<"g", "r", "o", "u", "p">>), Str(<<"d", "o", "m", "a", "i", "n">>),
    Str(<<"s", "e", "t", "t", "i", "n", "g">>), Str(<<"c", "o", "n", "f", "i", "g">>),
    Str(<<"u", "s", "e", "r">>), Str(<<"p", "r", "e", "f">>)>>

has_key(dict, name) == \E k \in 1..Len(dict.members) : dict.members[k][1] = Chars(name)

\* BlobDecoder.identify_data_type
identify_data_type(key, data) ==
  IF ~truthy(data) THEN Null
  ELSE IF truthy(key) /\ \E k \in 1..Len(keywords) : contains(lower(key.s), keywords[k])
    THEN PyStr(keywords[CHOOSE k \in 1..Len(keywords) :
                          /\ contains(lower(key.s), keywords[k])
                          /\ \A j \in 1..(k - 1) : ~contains(lower(key.s), keywords[j])])
  ELSE IF data.t = "list" /\ data.items[1].t = "dict"
    THEN IF has_key(data.items[1], "phrases") THEN PyStr(Chars("groups"))
         ELSE IF has_key(data.items[1], "pattern") THEN PyStr(Str(<<"d", "o", "m", "a", "i", "n", "s">>))
         ELSE IF has_key(data.items[1], "id") /\ has_key(data.items[1], "name")
           THEN PyStr(Chars("items"))
         ELSE Null
  ELSE Null

(***************************************************************************)
(* The row loops                                                           *)
(***************************************************************************)

\* Most rows of a table.
MaxRows == 3

Row(key_blob, data_blob) == [key |-> key_blob, data |-> data_blob]

GroupText ==
  Join(<<Chars("id"), Str(<<"g", "1">>), Chars("lightBgColor"), Hex1,
         Chars("darkBgColor"), Hex2>>, <<0>>)
DomainText == Join(<<Chars("pattern"), Str(<<"x">>)>>, <<Space>>)

\* The rows tables are made of: keys and data as the generator writes
\* them, scanner texts without JSON, undecodable bytes, and the nulls and
\* primitives a BLOB column can also hold.
RowSet ==
  {Row(Bytes(encode_key(Str(<<"g", "r">>))), Bytes(encode_data(PyDict(<<<<Str(<<"a">>), PyInt(1)>>>>)))),
   Row(Bytes(encode_key(Str(<<"g", "r">>))), Bytes(<<0>> \o GroupText)),
   Row(Bytes(encode_key(Chars("id"))), Bytes(DomainText)),
   Row(Bytes(<<1>>), Bytes(<<0, 255>>)),
   Row(Bytes(encode_key(Chars("id"))), PyInt(5)),
   Row(Null, Bytes(encode_data(PyList(<<PyInt(1)>>)))),
   Row(PyInt(7), Null),
   Row(PyStr(Str(<<"k">>)), Bytes(<<LBrace>>)),
   Row(Bytes(<<0>>),
       Bytes(encode_data(PyList(<<PyDict(<<<<Chars("pattern"), PyInt(1)>>>>)>>))))}

Tables == SeqsUpTo(RowSet, MaxRows)

LoopTools ==
  {"recover_data_from_database", "extract_data", "extract_data --verbose",
   "extract_data --extract-text", "extract_make_it_pop_data"}

InitLoop ==
  /\ NoBatch
  /\ pc = "loop"
  /\ tool \in LoopTools
  /\ arg = Null
  /\ stored = NotGenerated
  /\ ret = Null
  /\ spans = <<>>
  /\ rows \in Tables
  /\ idx = 0
  /\ entries = <<>>
  /\ raw_entries = <<>>
  /\ result = IF tool = "extract_make_it_pop_data"
                THEN [groups |-> <<>>, domains |-> <<>>]
                ELSE <<>>
  /\ printed = <<>>

\* The row the loop takes next.
key_blob == rows[idx + 1].key
data_blob == rows[idx + 1].data

\* entry = {...}: the dict built from a byte-sequence key, its decoded
\* key_str and the decoded (data_str, parsed_data).
entry(key, key_str, decoded) ==
  [key |-> key_str,
   key_hex |-> IF Len(key.b) > KeyHexBytes
                 THEN hex(SubSeq(key.b, 1, KeyHexBytes)) ELSE hex(key.b),
   has_json |-> decoded.parsed # Null,
   data |-> decoded.parsed,
   data_preview |-> IF truthy(decoded.data_str)
                      THEN PyStr(Truncate(decoded.data_str.s, PreviewLen)) ELSE Null,
   data_type |-> identify_data_type(key_str, decoded.parsed)]

\* The entry recover_data_from_database builds for a row whose key is a
\* byte sequence.
entry_of(key, data) ==
  entry(key, BlobDecoder_decode_key(key), BlobDecoder_decode_data(data))

\* An exception leaves the loop body of recover_data_from_database when
\* decode_key raises, and when the key has no len() or no hex(): every key
\* that is not a byte sequence.
row_raises(key) == BlobDecoder_decode_key(key) = Raise \/ ~isinstance_bytes(key)

\* An entry whose key, when none came out of the row, is the key of the
\* entry before it.
carried_over(e) ==
  IF e.key = Null /\ entries # <<>>
    THEN [e EXCEPT !.key = entries[Len(entries)].key]
    ELSE e

\* One iteration of recover_data_from_database in which key_str keeps the
\* value of the iteration before when no key comes out of the row.
RecoverRow_key_carried_over ==
  /\ pc = "loop"
  /\ tool = "recover_data_from_database"
  /\ idx < Len(rows)
  /\ IF row_raises(key_blob)
       THEN /\ entries' = <<>>
            /\ raw_entries' = <<>>
            /\ pc' = "done"
       ELSE /\ entries' = Append(entries, carried_over(entry_of(key_blob, data_blob)))
            /\ raw_entries' = Append(raw_entries, <<key_blob, data_blob>>)
            /\ pc' = pc
  /\ idx' = idx + 1
  /\ UNCHANGED <<batchVars, tool, arg, stored, ret, spans, rows, result, printed>>

\* One iteration of the loop of recover_data_from_database.  An exception
\* is caught by the except around the whole function, which returns an
\* ExtensionData with no entries.
RecoverRow ==
  /\ pc = "loop"
  /\ tool = "recover_data_from_database"
  /\ idx < Len(rows)
  /\ IF row_raises(key_blob)
       THEN /\ entries' = <<>>
            /\ raw_entries' = <<>>
            /\ pc' = "done"
       ELSE /\ entries' = Append(entries, entry_of(key_blob, data_blob))
            /\ raw_entries' = Append(raw_entries, <<key_blob, data_blob>>)
            /\ pc' = pc
  /\ idx' = idx + 1
  /\ UNCHANGED <<batchVars, tool, arg, stored, ret, spans, rows, result, printed>>

\* The loop is over: conn.close() and return.
RecoverReturn ==
  /\ pc = "loop"
  /\ tool = "recover_data_from_database"
  /\ idx = Len(rows)
  /\ pc' = "done"
  /\ UNCHANGED <<batchVars, tool, arg, stored, ret, spans, loopVars>>

\* result[key] = value
dict_set(dict, key, value) ==
  [k \in DOMAIN dict \cup {key} |-> IF k = key THEN value ELSE dict[k]]

Line(kind) == [row |-> idx + 1, line |-> kind]

\* "entry_" + str(i)
entry_name(i) == Str(<<"e", "n", "t", "r", "y", "_">>) \o digits(i)

\* What one iteration of extract_data prints and stores once key and data
\* are decoded: --verbose prints an "Entry i:" block in place of the
\* one-line marks.
extract_step(key, data) ==
  LET verbose == tool = "extract_data --verbose"
      block == IF verbose
                 THEN <<[row |-> idx + 1, line |-> "Entry", json_extracted |-> data # Null]>>
                 ELSE <<>>
  IN IF truthy(key) /\ data # Null
       THEN /\ result' = dict_set(result, key.s, data)
            /\ printed' = printed \o block \o (IF verbose THEN <<>> ELSE <<Line("Extracted")>>)
     ELSE IF truthy(key)
       THEN /\ result' = result
            /\ printed' = printed \o block
                            \o (IF verbose THEN <<>> ELSE <<Line("Could not decode data")>>)
     ELSE /\ result' = result
          /\ printed' = printed \o block
                          \o (IF verbose THEN <<>> ELSE <<Line("Could not decode key")>>)

\* One iteration of the loop of extract_data in its default mode and with
\* --verbose.
ExtractRow ==
  /\ pc = "loop"
  /\ tool \in {"extract_data", "extract_data --verbose"}
  /\ idx < Len(rows)
  /\ extract_step(decode_key(key_blob), decode_data(data_blob))
  /\ idx' = idx + 1
  /\ UNCHANGED <<batchVars, pc, tool, arg, stored, ret, spans, rows, entries, raw_entries>>

\* One iteration of the loop of extract_data with --extract-text: a row
\* without readable text is passed over.
ExtractTextRow ==
  /\ pc = "loop"
  /\ tool = "extract_data --extract-text"
  /\ idx < Len(rows)
  /\ LET key == decode_key(key_blob)
         text_strings == extract_readable_text(data_blob)
     IN IF text_strings # <<>>
          THEN /\ printed' = Append(printed, Line("Entry text"))
               /\ result' = dict_set(result,
                                     IF truthy(key) THEN key.s ELSE entry_name(idx + 1),
                                     text_strings)
          ELSE UNCHANGED <<printed, result>>
  /\ idx' = idx + 1
  /\ UNCHANGED <<batchVars, pc, tool, arg, stored, ret, spans, rows, entries, raw_entries>>

\* What one iteration of extract_make_it_pop_data stores and prints for a
\* parsed entry: entries that are neither Group nor Domain are silently
\* skipped.
make_it_pop_step(parsed) ==
  IF parsed.type = "group"
    THEN /\ result' = [result EXCEPT !.groups = Append(@, parsed.data)]
         /\ printed' = Append(printed, Line("Group"))
  ELSE IF parsed.type = "domain"
    THEN /\ result' = [result EXCEPT !.domains = Append(@, parsed.data)]
         /\ printed' = Append(printed, Line("Domain"))
  ELSE UNCHANGED <<result, printed>>

\* One iteration of the loop of extract_make_it_pop_data.
MakeItPopRow ==
  /\ pc = "loop"
  /\ tool = "extract_make_it_pop_data"
  /\ idx < Len(rows)
  /\ make_it_pop_step(parse_make_it_pop_entry(data_blob))
  /\ idx' = idx + 1
  /\ UNCHANGED <<batchVars, pc, tool, arg, stored, ret, spans, rows, entries, raw_entries>>

\* The loop of extract_data or extract_make_it_pop_data is over: return.
ExtractReturn ==
  /\ pc = "loop"
  /\ tool # "recover_data_from_database"
  /\ idx = Len(rows)
  /\ pc' = "done"
  /\ UNCHANGED <<batchVars, tool, arg, stored, ret, spans, loopVars>>

NextLoop ==
  \/ RecoverRow
  \/ RecoverReturn
  \/ ExtractRow
  \/ ExtractTextRow
  \/ MakeItPopRow
  \/ ExtractReturn

SpecLoop == InitLoop /\ [][NextLoop]_vars

(***************************************************************************)
(* Batches over database files: main of firefox_extension_storage_recovery *)
(* with and without --search, and main of find_firefox_extension           *)
(***************************************************************************)

\* Most files in a batch.
MaxFiles == 3

\* A file sqlite3 cannot open or read.
Unreadable == [readable |-> FALSE, table |-> <<>>]
\* A file whose object_data holds these rows.
Readable(table) == [readable |-> TRUE, table |-> table]

\* A data blob that is no JSON and has one character more than a preview.
LongData == Bytes([k \in 1..(PreviewLen + 1) |-> Ord("a")])

JsonRow ==
  Row(Bytes(encode_key(Str(<<"g", "r">>))), Bytes(encode_data(PyDict(<<<<Str(<<"a">>), PyInt(1)>>>>))))
TextRow == Row(Bytes(encode_key(Chars("id"))), Bytes(DomainText))
LongRow == Row(Bytes(encode_key(Str(<<"k", "1">>))), LongData)
NullKeyRow == Row(Null, Bytes(encode_data(PyList(<<PyInt(1)>>))))

\* The files of a batch: one that cannot be read, an empty table, tables
\* of one row, and a table whose second row has a NULL key.
BatchFiles ==
  {Unreadable, Readable(<<>>), Readable(<<JsonRow>>), Readable(<<TextRow>>),
   Readable(<<LongRow>>), Readable(<<NullKeyRow>>), Readable(<<JsonRow, NullKeyRow>>)}

\* The search terms.
SearchTerms == {Str(<<"G", "R">>), Str(<<"x">>)}

BatchTools == {"recovery main", "recovery main --search", "find_firefox_extension main"}

InitBatch ==
  /\ pc = "batch"
  /\ tool \in BatchTools
  /\ arg \in IF tool = "recovery main" THEN {Null} ELSE {PyStr(t) : t \in SearchTerms}
  /\ stored = NotGenerated
  /\ ret = Null
  /\ spans = <<>>
  /\ NoLoop
  /\ databases \in SeqsUpTo(BatchFiles, MaxFiles)
  /\ db_idx = 0
  /\ ext_data_list = <<>>
  /\ matches = <<>>
  /\ json_output = <<>>

\* The file the batch takes next, and its path: the files of a batch have
\* distinct paths, here their place in the list.
db_file == databases[db_idx + 1]
db_path == db_idx + 1

ExtensionData(path, e, raw) ==
  [database_path |-> path, entries |-> e, raw_entries |-> raw]

\* recover_data_from_database: the entries of all rows, or no entries when
\* the file cannot be read or a row raises.
recover_data_from_database(path, file) ==
  IF ~file.readable \/ \E i \in 1..Len(file.table) : row_raises(file.table[i].key)
    THEN ExtensionData(path, <<>>, <<>>)
    ELSE ExtensionData(path,
                       [i \in 1..Len(file.table) |->
                          entry_of(file.table[i].key, file.table[i].data)],
                       [i \in 1..Len(file.table) |->
                          <<file.table[i].key, file.table[i].data>>])

\* main stops at an unreadable file.
RecoverFile_stops ==
  /\ pc = "batch"
  /\ tool = "recovery main"
  /\ db_idx < Len(databases)
  /\ IF db_file.readable
       THEN /\ ext_data_list' =
                 Append(ext_data_list, recover_data_from_database(db_path, db_file))
            /\ db_idx' = db_idx + 1
       ELSE /\ ext_data_list' = ext_data_list
            /\ db_idx' = Len(databases)
  /\ UNCHANGED <<pc, tool, arg, stored, ret, spans, loopVars, databases, matches, json_output>>

\* One iteration of [recovery.recover_data_from_database(db) for db in
\* databases].
RecoverFile ==
  /\ pc = "batch"
  /\ tool = "recovery main"
  /\ db_idx < Len(databases)
  /\ ext_data_list' = Append(ext_data_list, recover_data_from_database(db_path, db_file))
  /\ db_idx' = db_idx + 1
  /\ UNCHANGED <<pc, tool, arg, stored, ret, spans, loopVars, databases, matches, json_output>>

\* entry.get(name, '') or ''
text_or_empty(v) == IF truthy(v) THEN v.s ELSE <<>>

\* search_lower in key.lower() or search_lower in data_preview.lower()
entry_found(e, search_lower) ==
  \/ contains(lower(text_or_empty(e.key)), search_lower)
  \/ contains(lower(text_or_empty(e.data_preview)), search_lower)

\* results after one iteration of search_databases that recovered ext_data.
results_with(ext_data, search_lower) ==
  IF \E i \in 1..Len(ext_data.entries) : entry_found(ext_data.entries[i], search_lower)
    THEN Append(ext_data_list, ext_data)
    ELSE ext_data_list

\* One iteration of the loop of search_databases.
SearchDatabasesFile ==
  /\ pc = "batch"
  /\ tool = "recovery main --search"
  /\ db_idx < Len(databases)
  /\ ext_data_list' = results_with(recover_data_from_database(db_path, db_file), lower(arg.s))
  /\ db_idx' = db_idx + 1
  /\ UNCHANGED <<pc, tool, arg, stored, ret, spans, loopVars, databases, matches, json_output>>

\* key_str and data_str of search_database.
row_text(v) ==
  IF isinstance_bytes(v) THEN utf8_ignore(v.b)
  ELSE IF v # Null THEN str(v)
  ELSE <<>>

\* search_database: FALSE when the file cannot be read.
search_database(file, search_term) ==
  /\ file.readable
  /\ \E i \in 1..Len(file.table) :
       \/ contains(lower(row_text(file.table[i].key)), lower(search_term))
       \/ contains(lower(row_text(file.table[i].data)), lower(search_term))

\* One iteration of the loop of find_firefox_extension's main; the except
\* of search_database writes a line for a file it cannot read.
FindFile ==
  /\ pc = "batch"
  /\ tool = "find_firefox_extension main"
  /\ db_idx < Len(databases)
  /\ matches' = IF search_database(db_file, arg.s) THEN Append(matches, db_path) ELSE matches
  /\ printed' = IF db_file.readable THEN printed
                ELSE Append(printed, [row |-> db_path, line |-> "Error reading"])
  /\ db_idx' = db_idx + 1
  /\ UNCHANGED <<pc, tool, arg, stored, ret, spans, rows, idx, entries, raw_entries, result,
                 databases, ext_data_list, json_output>>

\* Nothing was found to report: sys.exit(1).
exits ==
  \/ databases = <<>>
  \/ tool = "recovery main --search" /\ ext_data_list = <<>>
  \/ tool = "find_firefox_extension main" /\ matches = <<>>

\* The loop over the files is over.
BatchReturn ==
  /\ pc = "batch"
  /\ db_idx = Len(databases)
  /\ pc' = IF exits THEN "exit"
           ELSE IF tool = "find_firefox_extension main" THEN "done"
           ELSE "collected"
  /\ UNCHANGED <<tool, arg, stored, ret, spans, loopVars, batchVars>>

\* entry_info with the entry's data and data_preview both copied.
entry_info_both(e) ==
  [key |-> e.key, data_type |-> e.data_type, has_json |-> e.has_json, data |-> e.data,
   data_preview |-> e.data_preview]

\* entry_info of format_output_json.
entry_info(e) ==
  IF e.has_json
    THEN [key |-> e.key, data_type |-> e.data_type, has_json |-> e.has_json, data |-> e.data]
    ELSE [key |-> e.key, data_type |-> e.data_type, has_json |-> e.has_json,
          data_preview |-> e.data_preview]

\* format_output_json: result['extensions'].
format_output_json(list) ==
  [i \in 1..Len(list) |->
     [database_path |-> list[i].database_path,
      entries |-> [j \in 1..Len(list[i].entries) |-> entry_info(list[i].entries[j])]]]

\* main prints the collected data with --format json.
FormatJson ==
  /\ pc = "collected"
  /\ json_output' = format_output_json(ext_data_list)
  /\ pc' = "done"
  /\ UNCHANGED <<tool, arg, stored, ret, spans, loopVars, databases, db_idx, ext_data_list,
                 matches>>

NextBatch ==
  \/ RecoverFile
  \/ SearchDatabasesFile
  \/ FindFile
  \/ BatchReturn
  \/ FormatJson

SpecBatch == InitBatch /\ [][NextBatch]_vars

(***************************************************************************)
(* Specification of extract_readable_text: one call on one input           *)
(***************************************************************************)

\* Longest blob handed to extract_readable_text.
MaxTextLen == 5

\* Bytes of a text blob: a control byte, a space, a letter, a byte that is
\* not valid UTF-8.
TextAlphabet == {0, 32, 97, 255}

TextInputs ==
  {Bytes(b) : b \in SeqsUpTo(TextAlphabet, MaxTextLen)}
    \cup {Null, PyInt(5), PyStr(Str(<<"a", "b", "c">>))}

TextTools == {"extract_readable_text"}

InitText ==
  /\ NoBatch
  /\ pc = "call"
  /\ tool \in TextTools
  /\ arg \in TextInputs
  /\ stored = NotGenerated
  /\ ret = Null
  /\ spans = <<>>
  /\ NoLoop

Call_extract_readable_text ==
  /\ pc = "call"
  /\ tool = "extract_readable_text"
  /\ ret' = extract_readable_text(arg)
  /\ pc' = "return"
  /\ UNCHANGED <<spans, callFrame>>

NextText == Call_extract_readable_text

SpecText == InitText /\ [][NextText]_vars

(***************************************************************************)
(* Specification of the key decoders: one call on one input                *)
(***************************************************************************)

KeyTools == {"decode_key", "BlobDecoder.decode_key"}

\* Blobs longer than the offset scan reaches.
LongKeyBlobs ==
  {Rep(c, n) \o Str(<<"a", "b">>) : c \in {0, 1}, n \in {MaxOffsets - 1, MaxOffsets, MaxOffsets + 1}}

KeyInputs ==
  {Bytes(b) : b \in SeqsUpTo(KeyAlphabet, MaxKeyLen) \cup LongKeyBlobs}
    \cup {Null, PyInt(0), PyInt(5), PyInt(-12), PyStr(<<>>), PyStr(Str(<<"a", "b">>))}

InitKey ==
  /\ NoBatch
  /\ pc = "call"
  /\ tool \in KeyTools
  /\ arg \in KeyInputs
  /\ stored = NotGenerated
  /\ ret = Null
  /\ spans = <<>>
  /\ NoLoop

Call_decode_key ==
  /\ pc = "call"
  /\ tool = "decode_key"
  /\ ret' = decode_key(arg)
  /\ pc' = "return"
  /\ UNCHANGED <<spans, callFrame>>

Call_BlobDecoder_decode_key ==
  /\ pc = "call"
  /\ tool = "BlobDecoder.decode_key"
  /\ ret' = BlobDecoder_decode_key(arg)
  /\ pc' = "return"
  /\ UNCHANGED <<spans, callFrame>>

NextKey == Call_decode_key \/ Call_BlobDecoder_decode_key

SpecKey == InitKey /\ [][NextKey]_vars

(***************************************************************************)
(* Claims about decode_key                                                 *)
(***************************************************************************)

KeyReturned == pc = "return" /\ tool \in KeyTools

\* C1: for every byte sequence, decode_key (either implementation)
\* returns null or a string of at least 2 characters, all printable.
C1_AsClaimed ==
  (KeyReturned /\ isinstance_bytes(arg)) =>
    \/ ret.t = "null"
    \/ ret.t = "str" /\ Len(ret.s) >= 2 /\ all_printable(ret.s)

IsPrintableAscii(x) == x \in 32..126

RECURSIVE LeadingNonPrintable(_)
\* Number of leading bytes of b outside the printable ASCII range.
LeadingNonPrintable(b) ==
  IF b = <<>> \/ IsPrintableAscii(Head(b)) THEN 0
  ELSE 1 + LeadingNonPrintable(Tail(b))

KeyPrefix(b) == SubSeq(b, 1, LeadingNonPrintable(b))
KeyString(b) == SubSeq(b, LeadingNonPrintable(b) + 1, Len(b))

\* b is 0..20 non-printable bytes followed by at least 2 printable ASCII
\* characters, the shape encode_key gives a key.
IsEncodedKey(b) ==
  /\ Len(KeyPrefix(b)) <= MaxOffsets
  /\ Len(KeyString(b)) >= 2
  /\ \A k \in 1..Len(KeyString(b)) : IsPrintableAscii(KeyString(b)[k])

\* C3 as stated: a key blob made of 0..20 non-printable bytes followed by a
\* key of at least 2 printable ASCII characters decodes to exactly the key.
C3_AsClaimed ==
  (KeyReturned /\ isinstance_bytes(arg) /\ IsEncodedKey(arg.b)) =>
    ret = PyStr(KeyString(arg.b))

\* C3 amended: the same, for a prefix whose lossy UTF-8 decoding holds no
\* printable character (control bytes, stray or truncated UTF-8 bytes); a
\* prefix that decodes to a printable character stays in the key.
C3_PrefixDecodesToNothingPrintable ==
  (/\ KeyReturned
   /\ isinstance_bytes(arg)
   /\ IsEncodedKey(arg.b)
   /\ filter_printable(utf8_ignore(KeyPrefix(arg.b))) = <<>>) =>
    ret = PyStr(KeyString(arg.b))

\* A two-byte prefix holding a non-zero control byte is stripped by
\* BlobDecoder.decode_key.
C3_Witness ==
  /\ KeyReturned
  /\ tool = "BlobDecoder.decode_key"
  /\ isinstance_bytes(arg)
  /\ IsEncodedKey(arg.b)
  /\ Len(KeyPrefix(arg.b)) = 2
  /\ 1 \in {KeyPrefix(arg.b)[k] : k \in 1..2}
  /\ ret = PyStr(KeyString(arg.b))

(***************************************************************************)
(* Claims about decode_data                                                *)
(***************************************************************************)

DataReturned == pc = "return" /\ tool = "BlobDecoder.decode_data"

ScanReturned == pc = "return" /\ tool \in ScanTools /\ isinstance_bytes(arg)
PopReturned == ScanReturned /\ tool = "parse_make_it_pop_entry"

\* The text the scanner of the returned call worked on.
decoded_arg == utf8_ignore(arg.b)

\* C5: the spans of both scanners are in ascending order of their start
\* offset, each span ends where the next one starts, and the last span
\* ends at the end of the text.
C5_SpansContiguous ==
  ScanReturned =>
    /\ \A i \in 1..(Len(spans) - 1) :
         /\ spans[i].pos < spans[i + 1].pos
         /\ spans[i].value_end = spans[i + 1].pos
    /\ Len(spans) > 0 => spans[Len(spans)].value_end = Len(decoded_arg)

\* parse_make_it_pop_entry found 'darkBgColor', 'id' and 'lightBgColor' in
\* that order, not the order it looked them up in.
C5_Witness ==
  /\ PopReturned
  /\ Len(spans) = 3
  /\ spans[1].field = "darkBgColor"
  /\ spans[2].field = "id"
  /\ spans[3].field = "lightBgColor"
  /\ spans[1].value_end = spans[2].pos
  /\ spans[3].value_end = Len(decoded_arg)

\* C6: in parse_make_it_pop_entry the text region of a field holds no
\* occurrence of the name of another field the scanner recognized.
C6_AsClaimed ==
  PopReturned =>
    \A i, j \in 1..Len(spans) :
      i # j =>
        ~contains(Slice(decoded_arg, spans[i].value_start, spans[i].value_end),
                  Chars(spans[j].field))

has_domain_indicator(decoded) ==
  \E k \in 1..Len(domain_indicators) : contains(decoded, Chars(domain_indicators[k]))

\* C7: a text with at least two Group indicators and a Domain indicator is
\* scanned for the Group fields only and never comes back as a 'domain',
\* also when the Group record is rejected.
C7_GroupBeforeDomain ==
  (PopReturned /\ has_group_fields(decoded_arg) /\ has_domain_indicator(decoded_arg)) =>
    /\ ret.type # "domain"
    /\ \A i \in 1..Len(spans) : spans[i].field \in Range(group_fields)

\* A text with two Group indicators whose Group record is rejected, and
\* which read as a Domain would have given a record with a pattern.
C7_Witness ==
  /\ PopReturned
  /\ has_group_fields(decoded_arg)
  /\ has_domain_indicator(decoded_arg)
  /\ "pattern" \in DOMAIN domain_record(decoded_arg)
  /\ ret = NoEntry

\* C8: the text lightBgColor#1a2b3cdarkBgColor#4d5e6fphrasesfoo,bar comes
\* back as a 'group' whose lightBgColor is #1a2b3c and whose darkBgColor is
\* #4d5e6f.
C8_AsClaimed ==
  (PopReturned /\ decoded_arg = UndelimitedGroup) =>
    /\ ret.type = "group"
    /\ "lightBgColor" \in DOMAIN ret.data
    /\ ret.data["lightBgColor"] = Hex1
    /\ "darkBgColor" \in DOMAIN ret.data
    /\ ret.data["darkBgColor"] = Hex2

(***************************************************************************)
(* Claims about the row loops                                              *)
(***************************************************************************)

LoopDone == pc = "done"
Recovering == tool = "recover_data_from_database"

\* C4: when recover_data_from_database returns there is one entry per row,
\* in row order: a row whose key or data is null, a non-byte primitive or
\* undecodable has an entry with a null key or null data, and the rows
\* around it keep their decoded entries.
C4_AsClaimed ==
  (LoopDone /\ Recovering) =>
    /\ Len(entries) = Len(rows)
    /\ \A i \in 1..Len(rows) :
         IF isinstance_bytes(rows[i].key)
           THEN entries[i] = entry_of(rows[i].key, rows[i].data)
           ELSE entries[i].key = Null

\* The rows reported as decoded and the rows reported as not decodable:
\* the entries of recover_data_from_database, the lines extract_data and
\* extract_make_it_pop_data print.
reported ==
  IF Recovering THEN Len(entries)
  ELSE Cardinality({printed[k].row : k \in 1..Len(printed)})

\* C9: after a table of N rows is processed, every row is reported, as
\* decoded or as not decodable, in each of the row loops.
C9_AsClaimed == LoopDone => reported = Len(rows)

\* The lines of one kind among the first n printed.
count_lines(kind, n) ==
  Cardinality({k \in 1..n : printed[k].line = kind})

stored_with(k) ==
  IF tool # "extract_make_it_pop_data" THEN Null
  ELSE IF printed[k].line = "Group" THEN result.groups[count_lines("Group", k)]
  ELSE result.domains[count_lines("Domain", k)]

\* What the loop has produced for the i-th row: its entry, or the lines
\* printed for it together with the record stored with each line.
outcome(i) ==
  IF Recovering THEN <<entries[i]>>
  ELSE LET at == {k \in 1..Len(printed) : printed[k].row = i}
       IN <<{<<[printed[k] EXCEPT !.row = 0], stored_with(k)>> : k \in at}>>

\* The rows the loop has gone through without giving up.
processed == IF Recovering THEN 1..Len(entries) ELSE 1..idx

TextReturned == pc = "return" /\ tool = "extract_readable_text" /\ isinstance_bytes(arg)

\* C11: for every byte sequence, every string extract_readable_text returns
\* has at least 3 characters, the minimum run length, also when the run it
\* comes from begins or ends with spaces.
C11_AsClaimed ==
  TextReturned => \A k \in 1..Len(ret) : Len(ret[k]) >= MinRun

\* The maximal runs of at least 3 bytes in 0x20..0x7e of a byte sequence.
byte_runs(b) == findall_runs(b, 0)

\* s occurs in t as a contiguous slice.
is_slice(s, t) == \E k \in 0..Len(t) : match_at(t, s, k)

\* C15: every string extract_readable_text returns comes from one maximal
\* run of at least 3 printable-ASCII bytes of the input: a byte outside the
\* printable range, a byte that is not valid UTF-8 included, ends the run,
\* so no returned string joins two runs or a run shorter than 3.
C15_AsClaimed ==
  TextReturned =>
    /\ Len(ret) <= Len(byte_runs(arg.b))
    /\ \A k \in 1..Len(ret) :
         \E j \in 1..Len(byte_runs(arg.b)) : is_slice(ret[k], byte_runs(arg.b)[j])

(***************************************************************************)
(* Claims about values that are not byte sequences                         *)
(***************************************************************************)

\* An integer or a string: a primitive scalar that is not a byte sequence.
is_primitive(v) == v.t \in {"int", "str"}

\* C12: for every key that is an integer (0 included) or a string (the
\* empty string included), decode_key of either implementation returns
\* the string form of the key and does not raise.
C12_AsClaimed ==
  (KeyReturned /\ is_primitive(arg)) => ret = PyStr(str(arg))

\* What a direct JSON parse of a string gives: the value, or null.
direct_parse(text) == loads_or_none(json_loads(text))

\* C13: for every data value that is a string, decode_data parses the
\* string directly: BlobDecoder.decode_data returns (null, parsed) when it
\* is valid JSON and (null, null) otherwise, and the standalone decode_data
\* returns the parsed value or null.
C13_AsClaimed ==
  (pc = "return" /\ tool \in DataTools /\ isinstance_str(arg)) =>
    ret = IF tool = "BlobDecoder.decode_data"
            THEN PyTuple(Null, direct_parse(arg.s))
            ELSE direct_parse(arg.s)

(***************************************************************************)
(* Claims about BlobDecoder.decode_data on byte sequences                  *)
(***************************************************************************)

is_marker(c) == c = LBrace \/ c = LBracket

\* s is the 0-based index of the first '{' or '[' of the text.
first_marker_at(text, s) ==
  /\ s + 1 <= Len(text)
  /\ is_marker(text[s + 1])
  /\ \A j \in 1..s : ~is_marker(text[j])

no_marker(text) == \A j \in 1..Len(text) : ~is_marker(text[j])

\* The pair for a text whose first marker starts the given suffix.
pair_for(fullText, suffix, parsed) ==
  IF parsed.ok
    THEN PyTuple(PyStr(suffix), parsed.val)
    ELSE PyTuple(PyStr(fullText), Null)

\* C14: for every byte sequence BlobDecoder.decode_data returns
\* (null, null) for the empty blob; (fullText, null) when the decoded text
\* has no '{' or '['; (fullText[s:], parsed) when the suffix at the first
\* '{' or '[' parses as JSON; and (fullText, null), the whole text, when
\* that suffix does not parse.
C14_AsClaimed ==
  (DataReturned /\ isinstance_bytes(arg)) =>
    LET fullText == utf8_ignore(arg.b)
    IN /\ arg.b = <<>> => ret = PyTuple(Null, Null)
       /\ (arg.b # <<>> /\ no_marker(fullText)) => ret = PyTuple(PyStr(fullText), Null)
       /\ \A s \in 0..(Len(fullText) - 1) :
            first_marker_at(fullText, s) =>
              ret = pair_for(fullText, SliceFrom(fullText, s),
                             json_loads(SliceFrom(fullText, s)))

(***************************************************************************)
(* Claims about the positions and values the field scanners keep           *)
(***************************************************************************)

\* The field names parse_make_it_pop_entry looks for in a text.
selected_fields(decoded) ==
  IF has_group_fields(decoded) THEN group_fields ELSE domain_fields

\* The field name occurs at 0-based pos with no alphanumeric neighbour.
standalone_at(decoded, field, pos) ==
  match_at(decoded, Chars(field), pos) /\ is_standalone(decoded, pos, field)

\* pos is the first standalone occurrence of the field name.
first_standalone(decoded, field, pos) ==
  /\ standalone_at(decoded, field, pos)
  /\ \A q \in 0..(pos - 1) : ~standalone_at(decoded, field, q)

\* C16: for every field name of the selected schema,
\* parse_make_it_pop_entry records the position of the first standalone
\* occurrence of the name, also when an earlier occurrence is part of a
\* longer identifier, and records nothing for a name with no standalone
\* occurrence.
C16_AsClaimed ==
  PopReturned =>
    \A k \in 1..Len(selected_fields(decoded_arg)) :
      LET field == selected_fields(decoded_arg)[k]
      IN \A pos \in 0..Len(decoded_arg) :
           first_standalone(decoded_arg, field, pos) =>
             \E i \in 1..Len(spans) : spans[i].field = field /\ spans[i].pos = pos

\* The value a scanner returned for a field, <<>> when it returned none.
returned_value(field) ==
  IF tool = "parse_structured_data"
    THEN IF ret # Null /\ field \in DOMAIN ret.result THEN ret.result[field] ELSE <<>>
    ELSE IF ret.type # "none" /\ field \in DOMAIN ret.data THEN ret.data[field] ELSE <<>>

\* The value the scanner of the returned call takes from a span.
span_value(span) ==
  IF tool = "parse_structured_data"
    THEN structured_value(decoded_arg, span)
    ELSE stored_value(decoded_arg, span, selected_fields(decoded_arg))

\* C17: both scanners keep at most one position per field name, so no two
\* spans have the same field and the value returned for a field is the one
\* sliced from the span of its first standalone occurrence.
C17_AsClaimed ==
  ScanReturned =>
    /\ \A i, j \in 1..Len(spans) : spans[i].field = spans[j].field => i = j
    /\ \A i \in 1..Len(spans) :
         (first_standalone(decoded_arg, spans[i].field, spans[i].pos)
            /\ returned_value(spans[i].field) # <<>>)
           => returned_value(spans[i].field) = span_value(spans[i])

is_color_field(field) == contains(Chars(field), Str(<<"C", "o", "l", "o", "r">>))

\* '#' followed by exactly n hexadecimal digits.
is_hex_token(text, n) ==
  /\ Len(text) = n + 1
  /\ text[1] = Ord("#")
  /\ \A k \in 2..(n + 1) : IsHex(text[k])

\* C18: in every Group record parse_make_it_pop_entry returns, a field
\* whose name contains "Color" holds '#' followed by 6 or by 8 hexadecimal
\* digits, found in the value region of the field.
C18_AsClaimed ==
  (PopReturned /\ ret.type = "group") =>
    \A i \in 1..Len(spans) :
      (is_color_field(spans[i].field) /\ spans[i].field \in DOMAIN ret.data) =>
        /\ is_hex_token(ret.data[spans[i].field], 6) \/ is_hex_token(ret.data[spans[i].field], 8)
        /\ contains(Slice(decoded_arg, spans[i].value_start, spans[i].value_end),
                    ret.data[spans[i].field])

(***************************************************************************)
(* Claims about the records parse_make_it_pop_entry returns                *)
(***************************************************************************)

Light == Str(<<"l", "i", "g", "h", "t">>)
Dark == Str(<<"d", "a", "r", "k">>)

\* The cleaned value of the 'mode' span holds "light" or "dark" in any case.
names_a_mode(span) ==
  \/ contains(lower(value_text_of(decoded_arg, span, domain_fields)), Light)
  \/ contains(lower(value_text_of(decoded_arg, span, domain_fields)), Dark)

\* C19: in every Domain record parse_make_it_pop_entry returns, 'mode' is
\* absent or exactly "light" or "dark"; it is present exactly when the
\* cleaned value of the field contains "light" or "dark" in any case, and
\* then names a word that value contains.
C19_ModeNormalised ==
  (PopReturned /\ ret.type = "domain") =>
    /\ "mode" \in DOMAIN ret.data => ret.data["mode"] \in {Light, Dark}
    /\ "mode" \in DOMAIN ret.data <=>
         \E i \in 1..Len(spans) : spans[i].field = "mode" /\ names_a_mode(spans[i])
    /\ \A i \in 1..Len(spans) :
         (spans[i].field = "mode" /\ "mode" \in DOMAIN ret.data) =>
           contains(lower(value_text_of(decoded_arg, spans[i], domain_fields)),
                    ret.data["mode"])

\* A Domain record whose mode "light" was written "Light" in the text.
C19_Witness ==
  /\ PopReturned
  /\ ret.type = "domain"
  /\ "mode" \in DOMAIN ret.data
  /\ ret.data["mode"] = Light
  /\ \E i \in 1..Len(spans) :
       /\ spans[i].field = "mode"
       /\ value_text_of(decoded_arg, spans[i], domain_fields) = Str(<<"L", "i", "g", "h", "t">>)

\* A name of either schema occurs in the text.
recognizable(decoded) ==
  \E f \in Range(group_fields) \cup Range(domain_fields) : contains(decoded, Chars(f))

returned_record ==
  IF tool = "parse_structured_data"
    THEN IF ret = Null THEN <<>> ELSE ret.result
    ELSE IF ret.type = "none" THEN <<>> ELSE ret.data

\* The length limit of the parser that ran.
value_limit ==
  IF tool = "parse_structured_data" THEN MaxStructuredLen ELSE MaxValueLen

\* C21: every value in a record of parse_make_it_pop_entry is a non-empty
\* string of at most 200 characters, and every value in a result of
\* parse_structured_data a non-empty string of at most 500 characters.
C21_ValuesBounded ==
  ScanReturned =>
    \A f \in DOMAIN returned_record :
      /\ returned_record[f] # <<>>
      /\ Len(returned_record[f]) <= value_limit

\* parse_make_it_pop_entry stored 200 characters of a pattern whose cleaned
\* text has more.
C21_Witness ==
  /\ PopReturned
  /\ ret.type = "domain"
  /\ Len(ret.data["pattern"]) = MaxValueLen
  /\ \E i \in 1..Len(spans) :
       /\ spans[i].field = "pattern"
       /\ Len(value_text_of(decoded_arg, spans[i], domain_fields)) > MaxValueLen

(***************************************************************************)
(* Claims about batches of database files                                  *)
(***************************************************************************)

BatchOver == pc \in {"exit", "collected", "done"}

\* No row of this file makes recover_data_from_database raise.
recovers(file) ==
  file.readable /\ \A i \in 1..Len(file.table) : isinstance_bytes(file.table[i].key)

\* The places of the files in which search_database finds the term.
matching == {i \in 1..Len(databases) : search_database(databases[i], arg.s)}

\* C22: in a batch a file that cannot be opened or read gives an empty
\* result for that file only and the files after it are still taken:
\* without a search term there is one ExtensionData per path, in the order
\* of the paths, with all entries of every file that can be read; and
\* find_firefox_extension collects exactly the readable files that hold the
\* term, in order, whatever files around them cannot be read.
C22_BatchContinues ==
  /\ db_idx <= Len(databases)
  /\ BatchOver => db_idx = Len(databases)
  /\ (BatchOver /\ tool = "recovery main") =>
       /\ Len(ext_data_list) = Len(databases)
       /\ \A i \in 1..Len(databases) :
            /\ ext_data_list[i].database_path = i
            /\ ~databases[i].readable =>
                 (ext_data_list[i].entries = <<>> /\ ext_data_list[i].raw_entries = <<>>)
            /\ recovers(databases[i]) =>
                 /\ Len(ext_data_list[i].entries) = Len(databases[i].table)
                 /\ \A j \in 1..Len(databases[i].table) :
                      ext_data_list[i].raw_entries[j]
                        = <<databases[i].table[j].key, databases[i].table[j].data>>
  /\ (BatchOver /\ tool = "find_firefox_extension main") =>
       /\ Range(matches) = matching
       /\ Len(matches) = Cardinality(matching)
       /\ \A i, j \in 1..Len(matches) : i < j => matches[i] < matches[j]
       /\ \A i \in 1..Len(databases) : ~databases[i].readable => i \notin Range(matches)

\* A batch without a search term whose first file cannot be read and whose
\* second file gave its entries.
C22_Witness ==
  /\ BatchOver
  /\ tool = "recovery main"
  /\ Len(databases) >= 2
  /\ ~databases[1].readable
  /\ ext_data_list[1].entries = <<>>
  /\ ext_data_list[2].entries # <<>>

\* C23: every entry recover_data_from_database builds has has_json true
\* exactly when its parsed data is not null and a data_preview of at most
\* 200 characters; format_output_json gives an entry with has_json the
\* field 'data' and no 'data_preview', and every other entry the field
\* 'data_preview' and no 'data'.
C23_OneVariant ==
  /\ \A i \in 1..Len(ext_data_list) :
       \A j \in 1..Len(ext_data_list[i].entries) :
         LET e == ext_data_list[i].entries[j]
         IN /\ e.has_json <=> e.data # Null
            /\ e.data_preview # Null => Len(e.data_preview.s) <= PreviewLen
  /\ pc = "done" =>
       \A i \in 1..Len(json_output) :
         /\ Len(json_output[i].entries) = Len(ext_data_list[i].entries)
         /\ \A j \in 1..Len(json_output[i].entries) :
              LET e == ext_data_list[i].entries[j]
                  info == json_output[i].entries[j]
              IN /\ info.has_json = e.has_json
                 /\ "data" \in DOMAIN info <=> e.has_json
                 /\ "data_preview" \in DOMAIN info <=> ~e.has_json
                 /\ e.has_json => info.data = e.data
                 /\ ~e.has_json => info.data_preview = e.data_preview

\* The JSON output holds an entry with parsed data and an entry whose
\* preview is the first 200 characters of a longer text.
C23_Witness ==
  /\ pc = "done"
  /\ \E i \in 1..Len(json_output) :
       /\ json_output[i].entries # <<>>
       /\ "data" \in DOMAIN json_output[i].entries[1]
  /\ \E i \in 1..Len(json_output) :
       /\ json_output[i].entries # <<>>
       /\ "data_preview" \in DOMAIN json_output[i].entries[1]
       /\ Len(json_output[i].entries[1].data_preview.s) = PreviewLen
       /\ Len(databases[json_output[i].database_path].table[1].data.b) > PreviewLen

(***************************************************************************)
(* Claims about the offset scan of decode_key                              *)
(***************************************************************************)

\* A byte sequence in which every byte is a character of its own.
single_byte_blob(v) == isinstance_bytes(v) /\ \A k \in 1..Len(v.b) : v.b[k] < 128

\* The printable bytes of b[offset:].
printable_from(b, offset) == SelectSeq(SliceFrom(b, offset), isprintable)

\* The scan accepts this offset.
qualifies(b, offset) == Len(printable_from(b, offset)) >= 2

\* Strategy 1 of the implementation that ran returns the blob stripped of
\* NUL bytes.
direct_decode_returns(b) ==
  /\ strip_chars(b, {0}) # <<>>
  /\ \A k \in 1..Len(strip_chars(b, {0})) : isprintable(strip_chars(b, {0})[k])
  /\ tool = "BlobDecoder.decode_key" => Len(strip_chars(b, {0})) >= 2

\* The call reached the offset scan on a blob of single-byte characters.
ScanReached ==
  /\ KeyReturned
  /\ single_byte_blob(arg)
  /\ arg.b # <<>>
  /\ ~direct_decode_returns(arg.b)

\* C24: in the offset scan over a blob of single-byte characters, offset 0
\* qualifies whenever an offset in 0..min(20, len)-1 does, and the result of
\* the scan is the printable characters of the whole blob in order (null
\* when there are fewer than two): no later offset ever wins, and printable
\* bytes of the prefix stay in the key.
C24_OffsetZeroWins ==
  ScanReached =>
    /\ (\E k \in 0..(Min(MaxOffsets, Len(arg.b)) - 1) : qualifies(arg.b, k))
         => qualifies(arg.b, 0)
    /\ ret = IF qualifies(arg.b, 0) THEN PyStr(printable_from(arg.b, 0)) ELSE Null

\* The scan returned a key that begins with a printable byte in front of a
\* control byte, although offset 1 qualifies with a shorter key.
C24_Witness ==
  /\ ScanReached
  /\ isprintable(arg.b[1])
  /\ qualifies(arg.b, 1)
  /\ ret = PyStr(printable_from(arg.b, 0))
  /\ ret.s # printable_from(arg.b, 1)
  /\ Len(ret.s) < Len(arg.b)

(***************************************************************************)
(* Claims about the positions parse_make_it_pop_entry records              *)
(***************************************************************************)

\* C25: in parse_make_it_pop_entry a field recorded at an earlier position
\* ends at or before the position of every field recorded later, so no
\* value region begins inside the name of the next field or after its own
\* end.
C25_NamesDoNotOverlap ==
  PopReturned =>
    /\ \A i, j \in 1..Len(spans) :
         (spans[i].field # spans[j].field /\ spans[i].pos < spans[j].pos) =>
           spans[i].pos + Len(Chars(spans[i].field)) <= spans[j].pos
    /\ \A i \in 1..Len(spans) : spans[i].value_start <= spans[i].value_end

\* Two fields were recorded with one character between the name of the
\* first and the name of the second.
C25_Witness ==
  /\ PopReturned
  /\ Len(spans) >= 2
  /\ spans[1].field # spans[2].field
  /\ spans[1].value_start + 1 = spans[2].pos
  /\ spans[1].value_end = spans[2].pos

\* C26: parse_make_it_pop_entry never returns a 'domain' for a text that
\* holds neither 'pattern' nor 'groupIds'; when such a text is not a Group
\* the result is (null, null).
C26_NoDomainWithoutIndicator ==
  (PopReturned /\ isinstance_bytes(arg) /\ ~has_domain_indicator(decoded_arg)) =>
    /\ ret.type # "domain"
    /\ ~has_group_fields(decoded_arg) => ret = NoEntry

\* A text without a Domain indicator in which the Domain loop stored a
\* value for 'id': nothing is returned.
C26_Witness ==
  /\ PopReturned
  /\ isinstance_bytes(arg)
  /\ ~has_domain_indicator(decoded_arg)
  /\ ~has_group_fields(decoded_arg)
  /\ \E i \in 1..Len(spans) :
       /\ spans[i].field = "id"
       /\ stored_value(decoded_arg, spans[i], domain_fields) # <<>>
  /\ ret = NoEntry

(***************************************************************************)
(* Claims about the cleanup of leaked field names                          *)
(***************************************************************************)

\* The printable text ends with this field name standing alone: the name is
\* the whole text or the character in front of it is not alphanumeric.
ends_with_standalone(text, field) ==
  /\ endswith(text, Chars(field))
  /\ \/ Len(text) = Len(Chars(field))
     \/ ~isalnum(text[Len(text) - Len(Chars(field))])

\* C27: the cleanup in parse_make_it_pop_entry shortens a value only by a
\* trailing field name that stands alone; the printable text of a field
\* that is neither a colour nor the mode, and that does not end with a
\* standalone field name of the schema, is stored with all of its
\* characters (up to the length limit).
C27_AsClaimed ==
  (PopReturned /\ ret.type # "none") =>
    \A i \in 1..Len(spans) :
      LET text == printable_text(decoded_arg, spans[i])
          fields == selected_fields(decoded_arg)
      IN (/\ ~is_color_field(spans[i].field)
          /\ spans[i].field # "mode"
          /\ text # <<>>
          /\ \A k \in 1..Len(fields) : ~ends_with_standalone(text, fields[k]))
           => /\ spans[i].field \in DOMAIN ret.data
              /\ ret.data[spans[i].field] = Truncate(text, MaxValueLen)

====
